---------------------------- MODULE Spec2Model ----------------------------
(***************************************************************************)
(* Clipwise: highlight selection, caption grouping, ASS karaoke encoding,  *)
(* clip rendering and the processing routes, modelled from the TypeScript  *)
(* sources.                                                                *)
(*                                                                         *)
(* Times are integers.  The highlight selector works in tenths of a second *)
(* (15 s = 150), the caption/subtitle code in milliseconds.                *)
(***************************************************************************)
EXTENDS Integers, Sequences, FiniteSets, TLC

VARIABLES
    hl_pc,        \* detectHighlights: "ready" | "returned" | "threw"
    hl_options,   \* the options of the call: maxHighlights, minDuration, maxDuration
    hl_response,  \* what generateObject answers: [ok, highlights]
    hl_result,    \* the highlights returned (empty when it threw)
    hl_configured, \* providers.openai.isAvailable
    hl_requests,  \* how many times generateObject was called
    hl_error,     \* the error detectHighlights threw: [kind, cause]
    cap_pc,       \* generateCaptions / captionsToASS: "ready" | "returned" | "threw" | "encoded"
    cap_words,    \* the WordTimestamp list passed to generateCaptions
    cap_options,  \* the options of the call: maxWordsPerSegment, includeHook
    cap_response, \* what generateObject answers: [ok, object]
    cap_result,   \* the CaptionsResult returned by generateCaptions
    cap_error,    \* the words named by the error generateCaptions threw
    cap_ass,      \* the Dialogue lines of the track captionsToASS produced
    cap_header,   \* the [Script Info] and [V4+ Styles] fields of that track
    clip_pc,      \* createClip: the statement it is at, "returned" or "threw"
    clip_opts,    \* [cropToVertical, burnCaptions, captions (given or null)]
    clip_files,   \* the temp and output files of this invocation that exist
    clip_log,     \* the media-engine stages run so far: [stage, input, output, ok]
    clip_unlinkFailed,  \* whether a file deletion of this invocation failed
    pipe_pc,      \* the pipeline run: the statement it is at, or "done"
    pipe_route,   \* "process" | "retry" | "regenerate" | "example"
    video_status, \* Video.status
    video_error,  \* Video.errorMessage ("null" when there is none)
    transcription, \* the video's Transcription record: "none" | "old" | "new"
    clips,        \* the video's Clip records: [run, highlight, status, errorMessage]
    pipe_highlights, \* how many highlights detectHighlights returned
    pipe_started, \* the highlights the loop has started: [highlight, outcome]
    pipe_thrown,  \* the error that ended the run: [at, message]
    pipe_files,   \* the routes' temp files that exist: [highlight, file]
    pipe_video,   \* the video as the request loaded it, before changing anything
    cc_now,       \* two createClip invocations: what Date.now() returns
    cc_pc,        \* the statement each invocation is at
    cc_timestamp, \* each invocation's timestamp (createClip, 0 before it starts)
    cc_assTime,   \* each invocation's Date.now() in burnCaptions (0 before)
    cc_files,     \* the temp files that exist: [path, writer]
    cc_events,    \* accesses to a file another invocation wrote: [kind, by, path]
    crop_pc,      \* cropToVertical: "ready" | "resolved" | "rejected"
    crop_source,  \* the video stream's [width, height] as ffprobe reports them
    crop_options, \* [width, height, position] after defaulting
    crop_filters, \* the crop and scale filters handed to the media engine
    enc_pc,       \* formatASSTime / hexToASSColor on their own: "ready" | "done"
    enc_input,    \* [kind, ms, hex, alpha10]
    enc_output,   \* the text returned
    rq_status,    \* several requests on one video: Video.status
    rq_transcription,\* the run whose transcription record the video has, 0 for none
    rq_clips,     \* how many Clip records of each run the video has
    rq_pc,        \* the statement each request is at ("new": not yet arrived)
    rq_route,     \* the route of each request
    rq_left,      \* the loop iterations each run still has to do
    rq_overlap,   \* a request has arrived while another was running
    cw_pc,        \* the words of one clip: "ready" | "done"
    cw_words,     \* transcription.words: [word, start, end] in milliseconds
    cw_highlight, \* the highlight: [startTime, endTime]
    cw_adjusted   \* adjustedWords, the words passed to generateCaptions

hl_vars == <<hl_pc, hl_options, hl_response, hl_result, hl_configured,
             hl_requests, hl_error>>

cap_vars == <<cap_pc, cap_words, cap_options, cap_response, cap_result, cap_error,
              cap_ass, cap_header>>

clip_vars == <<clip_pc, clip_opts, clip_files, clip_log, clip_unlinkFailed>>

pipe_vars == <<pipe_pc, pipe_route, video_status, video_error, transcription,
               clips, pipe_highlights, pipe_started, pipe_thrown, pipe_files,
               pipe_video>>

cc_vars == <<cc_now, cc_pc, cc_timestamp, cc_assTime, cc_files, cc_events>>

crop_vars == <<crop_pc, crop_source, crop_options, crop_filters>>

enc_vars == <<enc_pc, enc_input, enc_output>>

rq_vars == <<rq_status, rq_transcription, rq_clips, rq_pc, rq_route, rq_left, rq_overlap>>

cw_vars == <<cw_pc, cw_words, cw_highlight, cw_adjusted>>

vars == <<hl_vars, cap_vars, clip_vars, pipe_vars, cc_vars, crop_vars, enc_vars, rq_vars, cw_vars>>

\* What an action of one component leaves alone: the other components.
hl_others == <<cap_vars, clip_vars, pipe_vars, cc_vars, crop_vars, enc_vars, rq_vars, cw_vars>>
cap_others == <<hl_vars, clip_vars, pipe_vars, cc_vars, crop_vars, enc_vars, rq_vars, cw_vars>>
clip_others == <<hl_vars, cap_vars, pipe_vars, cc_vars, crop_vars, enc_vars, rq_vars, cw_vars>>
pipe_others == <<hl_vars, cap_vars, clip_vars, cc_vars, crop_vars, enc_vars, rq_vars, cw_vars>>
cc_others == <<hl_vars, cap_vars, clip_vars, pipe_vars, crop_vars, enc_vars, rq_vars, cw_vars>>
crop_others == <<hl_vars, cap_vars, clip_vars, pipe_vars, cc_vars, enc_vars, rq_vars, cw_vars>>
enc_others == <<hl_vars, cap_vars, clip_vars, pipe_vars, cc_vars, crop_vars, rq_vars, cw_vars>>
rq_others == <<hl_vars, cap_vars, clip_vars, pipe_vars, cc_vars, crop_vars, enc_vars, cw_vars>>
cw_others == <<hl_vars, cap_vars, clip_vars, pipe_vars, cc_vars, crop_vars, enc_vars, rq_vars>>

(***************************************************************************)
(* Helpers on sequences.                                                   *)
(***************************************************************************)
Range(s) == { s[i] : i \in DOMAIN s }

Min2(a, b) == IF a < b THEN a ELSE b

\* Array.prototype.slice(0, n) for n >= 0.
SliceFirst(s, n) == SubSeq(s, 1, Min2(n, Len(s)))

\* All sequences over S of length at most n.
SeqUpTo(S, n) == UNION { [1..k -> S] : k \in 0..n }

(***************************************************************************)
(* Highlight selector (detectHighlights).                                  *)
(***************************************************************************)
\* Seconds to tenths of a second.
Sec(n) == n * 10

DefaultMaxHighlights == 5
DefaultMinDuration == Sec(15)
DefaultMaxDuration == Sec(60)

MaxCandidates == 3

\* Windows the language model may answer with (start, end, score); they
\* cover spans of 1.5 s, 14.9 s, 15 s, 25 s, 60 s, 60.1 s, 61 s, [5,20], [0,1].
CandidatePool ==
    { [startTime |-> Sec(10),  endTime |-> Sec(10) + 15, score |-> 95],
      [startTime |-> 0,        endTime |-> Sec(15) - 1,  score |-> 60],
      [startTime |-> 0,        endTime |-> Sec(15),      score |-> 70],
      [startTime |-> Sec(45),  endTime |-> Sec(70),      score |-> 90],
      [startTime |-> 0,        endTime |-> Sec(60),      score |-> 80],
      [startTime |-> 0,        endTime |-> Sec(60) + 1,  score |-> 85],
      [startTime |-> 0,        endTime |-> Sec(61),      score |-> 99],
      [startTime |-> Sec(5),   endTime |-> Sec(20),      score |-> 75],
      [startTime |-> 0,        endTime |-> Sec(1),       score |-> 50] }

\* A model answer: each candidate gets its position as title, so that two
\* candidates of one answer are never the same record.
Titled(ws) ==
    [i \in DOMAIN ws |->
        [title |-> i, startTime |-> ws[i].startTime,
         endTime |-> ws[i].endTime, score |-> ws[i].score]]

ModelAnswers == { Titled(ws) : ws \in SeqUpTo(CandidatePool, MaxCandidates) }

HighlightOptions ==
    { [maxHighlights |-> n, minDuration |-> d[1], maxDuration |-> d[2]] :
        n \in {1, 2, DefaultMaxHighlights},
        d \in { <<DefaultMinDuration, DefaultMaxDuration>>, <<Sec(10), Sec(20)>> } }

\* The filter with exclusive bounds.
IsValidDurationExclusive(h, minDuration, maxDuration) ==
    LET duration == h.endTime - h.startTime
    IN  duration > minDuration /\ duration < maxDuration

\* highlights.ts:102-109, the filter's predicate.
IsValidDuration(h, minDuration, maxDuration) ==
    LET duration == h.endTime - h.startTime
    IN  duration >= minDuration /\ duration <= maxDuration

\* The truncation applied before the filter instead of after it.
ValidatedHighlightsSliceFirst(highlights, options) ==
    LET Keep(h) == IsValidDuration(h, options.minDuration, options.maxDuration)
    IN  SelectSeq(SliceFirst(highlights, options.maxHighlights), Keep)

\* highlights.ts:101-110, .filter(...).slice(0, maxHighlights).
ValidatedHighlights(highlights, options) ==
    LET Keep(h) == IsValidDuration(h, options.minDuration, options.maxDuration)
    IN  SliceFirst(SelectSeq(highlights, Keep), options.maxHighlights)

\* What generateObject does: it answers with a list, or it throws.
ModelResponses ==
    { [ok |-> TRUE, highlights |-> a] : a \in ModelAnswers }
        \cup { [ok |-> FALSE, highlights |-> << >>] }

NoHighlightError == [kind |-> "none", cause |-> "none"]

\* providers.ts:50-56, the error of checkAIConfiguration.
ConfigurationError ==
    [kind |-> "configuration", cause |-> "OpenAI API key not configured"]

\* highlights.ts:118-120, the error of the catch block, naming its cause.
DetectionError ==
    [kind |-> "Failed to detect highlights", cause |-> "error of generateObject"]

\* A try block that also throws when no highlight is left.
DetectionFailsOnEmpty(response, options) ==
    \/ ~response.ok
    \/ ValidatedHighlights(response.highlights, options) = << >>

\* highlights.ts:84-121: the catch block is entered when generateObject
\* throws; the filter and the slice throw nothing.
DetectionFails(response, options) == ~response.ok

\* detectHighlights: the configuration check, then one request, then the
\* filter; a failed request is rethrown as "Failed to detect highlights:
\* <cause>".
DetectHighlights ==
    /\ hl_pc = "ready"
    /\ IF ~hl_configured
       THEN /\ hl_pc' = "threw"
            /\ hl_error' = ConfigurationError
            /\ UNCHANGED <<hl_result, hl_requests>>
       ELSE /\ hl_requests' = hl_requests + 1
            /\ IF DetectionFails(hl_response, hl_options)
               THEN /\ hl_pc' = "threw"
                    /\ hl_error' = DetectionError
                    /\ hl_result' = << >>
               ELSE /\ hl_pc' = "returned"
                    /\ hl_result' = ValidatedHighlights(hl_response.highlights, hl_options)
                    /\ UNCHANGED hl_error
    /\ UNCHANGED <<hl_options, hl_response, hl_configured, hl_others>>

\* Without an API key no request is made, so there is no answer to draw.
hl_Start ==
    /\ hl_pc = "ready"
    /\ hl_options \in HighlightOptions
    /\ \/ hl_configured = TRUE /\ hl_response \in ModelResponses
       \/ hl_configured = FALSE /\ hl_response = [ok |-> FALSE, highlights |-> << >>]
    /\ hl_result = << >>
    /\ hl_requests = 0
    /\ hl_error = NoHighlightError

hl_Idle ==
    /\ hl_pc = "idle"
    /\ hl_options = [maxHighlights |-> DefaultMaxHighlights,
                     minDuration |-> DefaultMinDuration,
                     maxDuration |-> DefaultMaxDuration]
    /\ hl_response = [ok |-> FALSE, highlights |-> << >>]
    /\ hl_result = << >>
    /\ hl_configured = TRUE
    /\ hl_requests = 0
    /\ hl_error = NoHighlightError


(***************************************************************************)
(* Strings are sequences of one-character strings, so that toLowerCase,    *)
(* trim, padStart and the hex conversions are computed, not assumed.       *)
(***************************************************************************)
UpperChars == <<"A", "B", "C", "D", "E", "F", "H", "I", "L", "N", "O", "Y">>
LowerChars == <<"a", "b", "c", "d", "e", "f", "h", "i", "l", "n", "o", "y">>
HexDigits == <<"0", "1", "2", "3", "4", "5", "6", "7",
               "8", "9", "A", "B", "C", "D", "E", "F">>

\* String.prototype.toLowerCase, character by character.
LowerChar(c) ==
    IF \E i \in DOMAIN UpperChars : UpperChars[i] = c
    THEN LowerChars[CHOOSE i \in DOMAIN UpperChars : UpperChars[i] = c]
    ELSE c

ToLowerCase(str) == [i \in DOMAIN str |-> LowerChar(str[i])]

\* String.prototype.toUpperCase, character by character.
UpperChar(c) ==
    IF \E i \in DOMAIN LowerChars : LowerChars[i] = c
    THEN UpperChars[CHOOSE i \in DOMAIN LowerChars : LowerChars[i] = c]
    ELSE c

\* String.prototype.trim: leading and trailing blanks removed.
RECURSIVE TrimStart(_)
TrimStart(str) ==
    IF str # << >> /\ Head(str) = " " THEN TrimStart(Tail(str)) ELSE str

RECURSIVE TrimEnd(_)
TrimEnd(str) ==
    IF str # << >> /\ str[Len(str)] = " "
    THEN TrimEnd(SubSeq(str, 1, Len(str) - 1))
    ELSE str

Trim(str) == TrimEnd(TrimStart(str))

\* Number.prototype.toString(radix) of a natural number, in upper case.
RECURSIVE NumToString(_, _)
NumToString(n, radix) ==
    IF n < radix THEN <<HexDigits[n + 1]>>
    ELSE NumToString(n \div radix, radix) \o <<HexDigits[(n % radix) + 1]>>

\* String.prototype.padStart(2, '0')
PadStart2(str) == IF Len(str) < 2 THEN <<"0">> \o str ELSE str

\* parseInt(twoHexDigits, 16)
HexDigitValue(c) == (CHOOSE i \in DOMAIN HexDigits : HexDigits[i] = UpperChar(c)) - 1
ParseHexByte(str) == HexDigitValue(str[1]) * 16 + HexDigitValue(str[2])

\* String.prototype.replace('#', ''): the first '#' removed.
RECURSIVE RemoveFirstHash(_)
RemoveFirstHash(str) ==
    IF str = << >> THEN << >>
    ELSE IF Head(str) = "#" THEN Tail(str)
    ELSE <<Head(str)>> \o RemoveFirstHash(Tail(str))

(***************************************************************************)
(* Caption grouper (generateCaptions) and subtitle cue encoder             *)
(* (captionsToASS).                                                        *)
(***************************************************************************)
MaxSegments == 3

\* w.word.toLowerCase().trim()
NormalizeWord(str) == TrimEnd(TrimStart(ToLowerCase(str)))

\* A WordTimestamp of the transcription and a CaptionWord of the model's answer.
InWord(text, start, end) == [word |-> text, start |-> start, end |-> end]
CapWord(text, start, end, emphasis) ==
    [word |-> text, startTime |-> start, endTime |-> end, emphasis |-> emphasis]

\* Word lists handed to generateCaptions: one with a repeated word, one with
\* capitals, one with a zero-length word before its repetition, an empty one.
InputPool ==
    { <<InWord(<<"h", "i">>, 500, 800), InWord(<<"l", "a">>, 800, 1200),
        InWord(<<"l", "a">>, 1200, 1500), InWord(<<"y", "o">>, 1500, 2000)>>,
      <<InWord(<<"H", "i">>, 500, 800), InWord(<<"L", "a">>, 800, 1200)>>,
      <<InWord(<<"l", "a">>, 1000, 1000), InWord(<<"l", "a">>, 1000, 1300),
        InWord(<<"y", "o">>, 1300, 1700)>>,
      << >> }

\* A CaptionSegment spanning its words (0..0 when it has none).
Segment(words) ==
    [startTime |-> IF words = << >> THEN 0 ELSE words[1].startTime,
     endTime   |-> IF words = << >> THEN 0 ELSE words[Len(words)].endTime,
     words     |-> words,
     position  |-> "bottom"]

\* Segments the language model may answer with: 2, 3 and 4 words, a repeated
\* text, other case and blanks, a word that is in no input ("no"), the same
\* text twice at the same start time, no word at all, and input words of
\* which one has a later end than in the input.
SegmentPool ==
    { Segment(<<CapWord(<<"h", "i">>, 500, 800, TRUE),
                CapWord(<<"l", "a">>, 800, 1200, FALSE)>>),
      Segment(<<CapWord(<<"l", "a">>, 800, 1200, FALSE),
                CapWord(<<"l", "a">>, 1200, 1500, FALSE),
                CapWord(<<"y", "o">>, 1500, 2000, TRUE)>>),
      Segment(<<CapWord(<<"h", "i">>, 500, 800, FALSE),
                CapWord(<<"l", "a">>, 800, 1200, FALSE),
                CapWord(<<"l", "a">>, 1200, 1500, TRUE),
                CapWord(<<"y", "o">>, 1500, 2000, FALSE)>>),
      Segment(<<CapWord(<<" ", "H", "I">>, 500, 800, FALSE),
                CapWord(<<"L", "a", " ">>, 800, 1200, FALSE)>>),
      Segment(<<CapWord(<<"h", "i">>, 500, 800, FALSE),
                CapWord(<<"n", "o">>, 800, 1200, FALSE)>>),
      Segment(<<CapWord(<<"l", "a">>, 1000, 1000, FALSE),
                CapWord(<<"l", "a">>, 1000, 1300, FALSE)>>),
      Segment(<< >>),
      Segment(<<CapWord(<<"h", "i">>, 500, 900, FALSE),
                CapWord(<<"l", "a">>, 800, 1200, FALSE)>>) }

StylePool ==
    { [fontSize |-> 36, color |-> <<"#", "F", "F", "F", "F", "F", "F">>,
       highlightColor |-> <<"#", "F", "F", "D", "7", "0", "0">>],
      [fontSize |-> 36, color |-> <<"#", "F", "F", "F", "F", "F", "F">>,
       highlightColor |-> <<"f", "f", "0", "0", "0", "0">>] }

\* Hook texts the language model may answer with, as their words: the
\* first input words, and a text with a word that is in no input ("wow").
InputHook == << <<"h", "i">>, <<"l", "a">> >>
HookPool == { InputHook, << <<"w", "o", "w">>, <<"h", "i">> >> }

\* maxWordsPerSegment = 3, includeHook = true (highlights.ts:308-313)
DefaultMaxWordsPerSegment == 3
DefaultCaptionOptions ==
    [maxWordsPerSegment |-> DefaultMaxWordsPerSegment, includeHook |-> TRUE]

\* Max words per caption (default: 3, range: 2-4)
CaptionOptions == [maxWordsPerSegment : 2..4, includeHook : BOOLEAN]

DefaultStyle ==
    [fontSize |-> 36, color |-> <<"#", "F", "F", "F", "F", "F", "F">>,
     highlightColor |-> <<"#", "F", "F", "D", "7", "0", "0">>]

NoCaptions == [captions |-> << >>, style |-> DefaultStyle, hook |-> << >>]

\* What generateObject does for the caption request: an object, or a throw.
CaptionResponses ==
    { [ok |-> TRUE, object |-> [captions |-> c, style |-> st, hook |-> InputHook]] :
        c \in SeqUpTo(SegmentPool, MaxSegments), st \in StylePool }
        \cup { [ok |-> FALSE, object |-> NoCaptions] }

\* The same with every hook text and fewer segments.
MaxOptionSegments == 2
CaptionOptionResponses ==
    { [ok |-> TRUE, object |-> [captions |-> c, style |-> DefaultStyle, hook |-> h]] :
        c \in SeqUpTo(SegmentPool, MaxOptionSegments), h \in HookPool }
        \cup { [ok |-> FALSE, object |-> NoCaptions] }

\* Array.prototype.flatMap over the segments' word lists.
RECURSIVE FlatWords(_)
FlatWords(captions) ==
    IF captions = << >> THEN << >>
    ELSE Head(captions).words \o FlatWords(Tail(captions))

\* highlights.ts:339, the set of normalised input words.
OriginalWords(words) == { NormalizeWord(words[i].word) : i \in DOMAIN words }

\* The validation looking at the first segment only.
HallucinatedWordsFirstSegment(words, object) ==
    LET first == SliceFirst(object.captions, 1)
        captionWords == [i \in DOMAIN FlatWords(first) |->
                            NormalizeWord(FlatWords(first)[i].word)]
        Keep(w) == w \notin OriginalWords(words)
    IN  SelectSeq(captionWords, Keep)

\* highlights.ts:340-344: the caption words, normalised, that are not input words.
HallucinatedWords(words, object) ==
    LET captionWords == [i \in DOMAIN FlatWords(object.captions) |->
                            NormalizeWord(FlatWords(object.captions)[i].word)]
        Keep(w) == w \notin OriginalWords(words)
    IN  SelectSeq(captionWords, Keep)

\* generateCaptions: one request, then the validation.  A failed request
\* and a failed validation both end in the catch block, which rethrows
\* "Failed to generate captions: <message>"; the validation's message lists
\* the hallucinated words.
GenerateCaptions ==
    /\ cap_pc = "ready"
    /\ IF ~cap_response.ok
       THEN /\ cap_pc' = "threw"
            /\ cap_error' = [kind |-> "request", words |-> << >>]
            /\ cap_result' = NoCaptions
       ELSE IF Len(HallucinatedWords(cap_words, cap_response.object)) > 0
       THEN /\ cap_pc' = "threw"
            /\ cap_error' = [kind |-> "hallucination",
                             words |-> HallucinatedWords(cap_words, cap_response.object)]
            /\ cap_result' = NoCaptions
       ELSE /\ cap_pc' = "returned"
            /\ cap_error' = [kind |-> "none", words |-> << >>]
            /\ cap_result' = cap_response.object
    /\ UNCHANGED <<cap_words, cap_options, cap_response, cap_ass, cap_header,
                   cap_others>>

\* The times formatASSTime is applied to here: every millisecond up to
\* MaxTimeMs, and some around the minute and the hour.
MaxTimeMs == 2000
LargeTimes == {59990, 59999, 60000, 61290, 3599990, 3600000, 3661070,
               35999990, 36000000}
TimeDomain == (0..MaxTimeMs) \cup LargeTimes

\* seconds is a double.  seconds % 1 is exact, but (seconds % 1) * 100 is
\* rounded, and the double nearest to a decimal such as 1.2 lies below it:
\* (1.2 % 1) * 100 is 19.999999999999996.  These are the times of
\* TimeDomain for which the product is just below the whole number of
\* centiseconds, so that Math.floor gives one less.
RoundsBelow ==
    {290, 570, 580, 1130, 1140, 1150, 1160, 1170, 1180, 1190, 1200, 1210,
     1220, 1380, 1390, 1400, 1410, 1420, 1430, 1440, 1450, 1630, 1640, 1650,
     1660, 1880, 1890, 1900, 1910, 61290, 3599990, 35999990}

\* Math.floor((seconds % 1) * 100)
Centiseconds(ms) ==
    IF ms \in RoundsBelow THEN ((ms % 1000) \div 10) - 1 ELSE (ms % 1000) \div 10

\* formatASSTime of a time in milliseconds: H:MM:SS.cc
formatASSTime(ms) ==
    LET hours == ms \div 3600000
        minutes == (ms % 3600000) \div 60000
        secs == (ms % 60000) \div 1000
        centiseconds == Centiseconds(ms)
    IN  NumToString(hours, 10) \o <<":">> \o PadStart2(NumToString(minutes, 10))
          \o <<":">> \o PadStart2(NumToString(secs, 10))
          \o <<".">> \o PadStart2(NumToString(centiseconds, 10))

\* Math.round((1 - alpha) * 255) for alpha in tenths: halves round up, and
\* for 0.9 the double product is 25.499999999999993, which rounds to 25.
AlphaByte(alpha10) ==
    IF alpha10 = 9 THEN 25 ELSE ((10 - alpha10) * 255 * 2 + 10) \div 20

\* The channels written in the order of the input, &HAARRGGBB.
hexToASSColorRGBOrder(hex, alpha10) ==
    LET cleanHex == RemoveFirstHash(hex)
        r == ParseHexByte(SubSeq(cleanHex, 1, 2))
        g == ParseHexByte(SubSeq(cleanHex, 3, 4))
        b == ParseHexByte(SubSeq(cleanHex, 5, 6))
        a == AlphaByte(alpha10)
    IN  <<"&", "H">> \o PadStart2(NumToString(a, 16)) \o PadStart2(NumToString(r, 16))
          \o PadStart2(NumToString(g, 16)) \o PadStart2(NumToString(b, 16))

\* hexToASSColor(hex, alpha), alpha in tenths (10 = fully opaque): &HAABBGGRR
hexToASSColor(hex, alpha10) ==
    LET cleanHex == RemoveFirstHash(hex)
        r == ParseHexByte(SubSeq(cleanHex, 1, 2))
        g == ParseHexByte(SubSeq(cleanHex, 3, 4))
        b == ParseHexByte(SubSeq(cleanHex, 5, 6))
        a == AlphaByte(alpha10)
    IN  <<"&", "H">> \o PadStart2(NumToString(a, 16)) \o PadStart2(NumToString(b, 16))
          \o PadStart2(NumToString(g, 16)) \o PadStart2(NumToString(r, 16))

ASSWhite == <<"&", "H", "0", "0", "F", "F", "F", "F", "F", "F">>
ASSBlack == <<"&", "H", "0", "0", "0", "0", "0", "0", "0", "0">>

\* The inline override blocks of highlights.ts:545 and :548.
ActiveOverride(style) ==
    [c1 |-> hexToASSColor(style.highlightColor, 10), c3 |-> ASSBlack, bord |-> 3]
InactiveOverride == [c1 |-> ASSWhite, c3 |-> ASSBlack, bord |-> 2]

\* One event per segment instead of one per word.
generateKaraokeEventsPerSegment(segment, style) ==
    IF segment.words = << >> THEN << >>
    ELSE << [start |-> formatASSTime(segment.startTime),
             end   |-> formatASSTime(segment.endTime),
             style |-> "Default",
             text  |-> [k \in DOMAIN segment.words |->
                          [override |-> IF k = 1 THEN ActiveOverride(style)
                                        ELSE InactiveOverride,
                           word |-> segment.words[k].word]]] >>

\* generateKaraokeEvents: one Dialogue line per word of the segment; the
\* line shows all the segment's words, those equal to the current word in
\* text and start time with the highlight override.
generateKaraokeEvents(segment, style) ==
    LET words == segment.words
    IN  [j \in DOMAIN words |->
            [start |-> formatASSTime(words[j].startTime),
             end   |-> formatASSTime(words[j].endTime),
             style |-> "Default",
             text  |-> [k \in DOMAIN words |->
                          [override |->
                              IF /\ words[k].word = words[j].word
                                 /\ words[k].startTime = words[j].startTime
                              THEN ActiveOverride(style)
                              ELSE InactiveOverride,
                           word |-> words[k].word]]]]

\* captionsToASS: the events of all segments, in segment order.
RECURSIVE KaraokeEventsOfAll(_, _)
KaraokeEventsOfAll(captions, style) ==
    IF captions = << >> THEN << >>
    ELSE generateKaraokeEvents(Head(captions), style)
            \o KaraokeEventsOfAll(Tail(captions), style)

\* The header of captionsToASS (highlights.ts:504-520): PlayResY and the two
\* Style lines, of which the fields after Fontname are kept by name.
ASSStyleLine(name, fontSize, primary, secondary, outline, back, marginV) ==
    [name |-> name, fontSize |-> fontSize, primary |-> primary,
     secondary |-> secondary, outline |-> outline, back |-> back,
     alignment |-> 2, marginL |-> 10, marginR |-> 10, marginV |-> marginV]

ASSBackShadow == <<"&", "H", "8", "0", "0", "0", "0", "0", "0", "0">>

\* The header with the bottom margin the styles had before (200).
ASSHeaderMargin200(style) ==
    [playResY |-> 1920,
     styles |->
       <<ASSStyleLine("Default", style.fontSize, ASSWhite, ASSWhite, ASSBlack,
                      ASSBackShadow, 200),
         ASSStyleLine("Highlight", style.fontSize,
                      hexToASSColor(style.highlightColor, 10),
                      hexToASSColor(style.highlightColor, 10), ASSBlack,
                      hexToASSColor(style.highlightColor, 8), 200)>>]

ASSHeader(style) ==
    [playResY |-> 1920,
     styles |->
       <<ASSStyleLine("Default", style.fontSize, ASSWhite, ASSWhite, ASSBlack,
                      ASSBackShadow, 480),
         ASSStyleLine("Highlight", style.fontSize,
                      hexToASSColor(style.highlightColor, 10),
                      hexToASSColor(style.highlightColor, 10), ASSBlack,
                      hexToASSColor(style.highlightColor, 8), 480)>>]

NoHeader == [playResY |-> 0, styles |-> << >>]

captionsToASS(captionsResult) ==
    KaraokeEventsOfAll(captionsResult.captions, captionsResult.style)

\* burnCaptions encodes the CaptionsResult that generateCaptions returned.
CaptionsToASS ==
    /\ cap_pc = "returned"
    /\ cap_pc' = "encoded"
    /\ cap_ass' = captionsToASS(cap_result)
    /\ cap_header' = ASSHeader(cap_result.style)
    /\ UNCHANGED <<cap_words, cap_options, cap_response, cap_result, cap_error,
                   cap_others>>

cap_Start ==
    /\ cap_pc = "ready"
    /\ cap_words \in InputPool
    /\ cap_options = DefaultCaptionOptions
    /\ cap_response \in CaptionResponses
    /\ cap_result = NoCaptions
    /\ cap_error = [kind |-> "none", words |-> << >>]
    /\ cap_ass = << >>
    /\ cap_header = NoHeader

\* A call of generateCaptions with any options and any hook in the answer.
cap_StartOptions ==
    /\ cap_pc = "ready"
    /\ cap_words \in InputPool
    /\ cap_options \in CaptionOptions
    /\ cap_response \in CaptionOptionResponses
    /\ cap_result = NoCaptions
    /\ cap_error = [kind |-> "none", words |-> << >>]
    /\ cap_ass = << >>
    /\ cap_header = NoHeader

cap_Idle ==
    /\ cap_pc = "idle"
    /\ cap_words = << >>
    /\ cap_options = DefaultCaptionOptions
    /\ cap_response = [ok |-> FALSE, object |-> NoCaptions]
    /\ cap_result = NoCaptions
    /\ cap_error = [kind |-> "none", words |-> << >>]
    /\ cap_ass = << >>
    /\ cap_header = NoHeader

(***************************************************************************)
(* Clip render orchestrator (createClip, burnCaptions).  A step is one     *)
(* awaited call together with the statements up to the next await.  The    *)
(* media engine may fail at any stage and may then leave a partial output  *)
(* file behind; a deletion may fail.                                       *)
(***************************************************************************)
ExtractedPath == "clip-<timestamp>-extracted.mp4"
CroppedPath == "clip-<timestamp>-cropped.mp4"
AssPath == "captions-<now>.ass"
SourcePath == "inputVideoPath"
OutputPath == "outputPath"

TempPaths == {ExtractedPath, CroppedPath, AssPath}

ClipOptions == [cropToVertical : BOOLEAN, burnCaptions : BOOLEAN, captions : BOOLEAN]

\* A processedPath that stays the extracted file whatever the options.
ProcessedPathNoCrop(opts) == ExtractedPath

\* processor.ts:293-299, the file the stage after the crop step reads.
ProcessedPath(opts) == IF opts.cropToVertical THEN CroppedPath ELSE ExtractedPath

\* A cleanup that forgets the cropped file.
CatchTempFilesExtractedOnly == {ExtractedPath}

\* processor.ts:311-314, the files the catch block deletes.
CatchTempFiles == {ExtractedPath, CroppedPath}

\* processor.ts:302, whether step 3 burns captions (else it renames).
BurnsCaptions(opts) == opts.burnCaptions /\ opts.captions

\* The statement after the crop step.
AfterCrop(opts) == IF BurnsCaptions(opts) THEN "writeAss" ELSE "rename"

\* fs.unlink of the files in fs; those in failing stay (the deletion failed).
Unlinked(files, fs, failing) == files \ (fs \ failing)

LogStage(stage, input, output, ok) ==
    Append(clip_log, [stage |-> stage, input |-> input, output |-> output, ok |-> ok])

\* processor.ts:289-290, await extractClip(...)
ExtractClip ==
    /\ clip_pc = "extract"
    /\ \/ /\ clip_files' = clip_files \cup {ExtractedPath}
          /\ clip_log' = LogStage("extract", SourcePath, ExtractedPath, TRUE)
          /\ clip_pc' = IF clip_opts.cropToVertical THEN "crop" ELSE AfterCrop(clip_opts)
       \/ /\ \E partial \in SUBSET {ExtractedPath} :
                clip_files' = clip_files \cup partial
          /\ clip_log' = LogStage("extract", SourcePath, ExtractedPath, FALSE)
          /\ clip_pc' = "catch"
    /\ UNCHANGED <<clip_opts, clip_unlinkFailed, clip_others>>

\* processor.ts:295-296, await cropToVertical(extractedPath, croppedPath):
\* ffprobe or ffmpeg may fail.
CropToVertical ==
    /\ clip_pc = "crop"
    /\ \/ /\ clip_files' = clip_files \cup {CroppedPath}
          /\ clip_log' = LogStage("crop", ExtractedPath, CroppedPath, TRUE)
          /\ clip_pc' = "unlinkExtracted"
       \/ /\ \E partial \in SUBSET {CroppedPath} :
                clip_files' = clip_files \cup partial
          /\ clip_log' = LogStage("crop", ExtractedPath, CroppedPath, FALSE)
          /\ clip_pc' = "catch"
    /\ UNCHANGED <<clip_opts, clip_unlinkFailed, clip_others>>

\* processor.ts:297-298, await fs.unlink(extractedPath); it throws when
\* the deletion fails.
UnlinkExtracted ==
    /\ clip_pc = "unlinkExtracted"
    /\ \/ /\ clip_files' = Unlinked(clip_files, {ExtractedPath}, {})
          /\ clip_pc' = AfterCrop(clip_opts)
          /\ UNCHANGED clip_unlinkFailed
       \/ /\ clip_unlinkFailed' = TRUE
          /\ clip_pc' = "catch"
          /\ UNCHANGED clip_files
    /\ UNCHANGED <<clip_opts, clip_log, clip_others>>

\* processor.ts:174-176, burnCaptions writes the subtitle track to a temp file.
WriteAssFile ==
    /\ clip_pc = "writeAss"
    /\ clip_files' = clip_files \cup {AssPath}
    /\ clip_pc' = "burn"
    /\ UNCHANGED <<clip_opts, clip_log, clip_unlinkFailed, clip_others>>

\* processor.ts:181-206, the ffmpeg run of burnCaptions: its 'end' and its
\* 'error' handler both delete the subtitle file, ignoring a failed deletion.
BurnCaptions ==
    /\ clip_pc = "burn"
    /\ \E failing \in SUBSET {AssPath} :
          /\ clip_unlinkFailed' = (clip_unlinkFailed \/ failing # {})
          /\ \/ /\ clip_files' = Unlinked(clip_files, {AssPath}, failing) \cup {OutputPath}
                /\ clip_log' = LogStage("burn", ProcessedPath(clip_opts), OutputPath, TRUE)
                /\ clip_pc' = "unlinkProcessed"
             \/ /\ \E partial \in SUBSET {OutputPath} :
                      clip_files' = Unlinked(clip_files, {AssPath}, failing) \cup partial
                /\ clip_log' = LogStage("burn", ProcessedPath(clip_opts), OutputPath, FALSE)
                /\ clip_pc' = "catch"
    /\ UNCHANGED <<clip_opts, clip_others>>

\* processor.ts:304, await fs.unlink(processedPath)
UnlinkProcessed ==
    /\ clip_pc = "unlinkProcessed"
    /\ \/ /\ clip_files' = Unlinked(clip_files, {ProcessedPath(clip_opts)}, {})
          /\ clip_pc' = "returned"
          /\ UNCHANGED clip_unlinkFailed
       \/ /\ clip_unlinkFailed' = TRUE
          /\ clip_pc' = "catch"
          /\ UNCHANGED clip_files
    /\ UNCHANGED <<clip_opts, clip_log, clip_others>>

\* processor.ts:307, await fs.rename(processedPath, outputPath)
RenameToOutput ==
    /\ clip_pc = "rename"
    /\ \/ /\ clip_files' = (clip_files \ {ProcessedPath(clip_opts)}) \cup {OutputPath}
          /\ clip_log' = LogStage("rename", ProcessedPath(clip_opts), OutputPath, TRUE)
          /\ clip_pc' = "returned"
       \/ /\ clip_log' = LogStage("rename", ProcessedPath(clip_opts), OutputPath, FALSE)
          /\ clip_pc' = "catch"
          /\ UNCHANGED clip_files
    /\ UNCHANGED <<clip_opts, clip_unlinkFailed, clip_others>>

\* processor.ts:309-325, the catch block: delete the extracted and the
\* cropped file, ignoring failed deletions, and rethrow.
CatchCleanup ==
    /\ clip_pc = "catch"
    /\ \E failing \in SUBSET (CatchTempFiles \cap clip_files) :
          /\ clip_files' = Unlinked(clip_files, CatchTempFiles, failing)
          /\ clip_unlinkFailed' = (clip_unlinkFailed \/ failing # {})
    /\ clip_pc' = "threw"
    /\ UNCHANGED <<clip_opts, clip_log, clip_others>>

clip_Start ==
    /\ clip_pc = "extract"
    /\ clip_opts \in ClipOptions
    /\ clip_files = {}
    /\ clip_log = << >>
    /\ clip_unlinkFailed = FALSE

clip_Idle ==
    /\ clip_pc = "idle"
    /\ clip_opts = [cropToVertical |-> TRUE, burnCaptions |-> TRUE, captions |-> TRUE]
    /\ clip_files = {}
    /\ clip_log = << >>
    /\ clip_unlinkFailed = FALSE

(***************************************************************************)
(* The processing pipelines: the process, retry and regenerate routes and  *)
(* processVideoComplete of pipeline-example.ts ("example").  A step is one *)
(* awaited call with the statements up to the next one.  Transcription,    *)
(* highlight detection and every stage of handling a clip may throw.       *)
(***************************************************************************)
MaxPipelineHighlights == 2
MaxOldClips == 1

Routes == {"process", "retry", "regenerate"}
Pipelines == Routes \cup {"example"}

\* The stages of handling one highlight after its clip record exists.
ClipStages == {"captions", "download", "render", "upload", "update"}

NoError == [at |-> "none", message |-> "null"]

\* error instanceof Error ? error.message : <default>; every error thrown
\* here is an Error, so the message is the error's own: it is named by the
\* call that threw it.
ErrorMessage(at) == at

\* The statuses RegenerateClips.execute accepts, and a check that accepts any.
AnyStatus ==
    {"UPLOADED", "TRANSCRIBING", "TRANSCRIBED", "PROCESSING", "READY", "FAILED"}

RegenerateAllowedStatuses == {"READY", "FAILED", "TRANSCRIBED"}

OldClip(status) ==
    [run |-> "old", highlight |-> 0, status |-> status, errorMessage |-> "null"]

\* What an earlier upload or run may have left: status, transcription, clips.
PriorStates ==
    { [status |-> "UPLOADED", transcription |-> "none", clips |-> << >>],
      [status |-> "TRANSCRIBING", transcription |-> "none", clips |-> << >>],
      [status |-> "FAILED", transcription |-> "none", clips |-> << >>] }
    \cup
    { [status |-> st, transcription |-> "old", clips |-> cs] :
        st \in {"TRANSCRIBED", "PROCESSING", "READY", "FAILED"},
        cs \in SeqUpTo({OldClip("READY"), OldClip("GENERATING")}, MaxOldClips) }

\* A reset that deletes the transcription but leaves the clips.
PrepareRetryKeepsClips ==
    /\ pipe_pc = "start"
    /\ pipe_route = "retry"
    /\ transcription' = "none"
    /\ video_status' = "UPLOADED"
    /\ video_error' = "null"
    /\ pipe_pc' = "markTranscribing"
    /\ UNCHANGED <<pipe_route, pipe_video, clips, pipe_highlights, pipe_started, pipe_thrown,
                   pipe_files, pipe_others>>

\* RetryVideoProcessing.execute: delete the transcription and the clips,
\* status UPLOADED, error cleared.
PrepareRetry ==
    /\ pipe_pc = "start"
    /\ pipe_route = "retry"
    /\ transcription' = "none"
    /\ clips' = << >>
    /\ video_status' = "UPLOADED"
    /\ video_error' = "null"
    /\ pipe_pc' = "markTranscribing"
    /\ UNCHANGED <<pipe_route, pipe_video, pipe_highlights, pipe_started, pipe_thrown,
                   pipe_files, pipe_others>>

\* RegenerateClips.execute: it throws unless the status is READY, FAILED or
\* TRANSCRIBED and (except for FAILED) a transcription exists; else it
\* deletes the clips, sets the status TRANSCRIBED and clears the error.
PrepareRegenerate ==
    /\ pipe_pc = "start"
    /\ pipe_route = "regenerate"
    /\ IF video_status \notin RegenerateAllowedStatuses
       THEN /\ pipe_thrown' = [at |-> "prepare", message |-> ErrorMessage("status check")]
            /\ pipe_pc' = "catch"
            /\ UNCHANGED <<clips, video_status, video_error>>
       ELSE IF video_status # "FAILED" /\ transcription = "none"
       THEN /\ pipe_thrown' = [at |-> "prepare", message |-> ErrorMessage("transcription check")]
            /\ pipe_pc' = "catch"
            /\ UNCHANGED <<clips, video_status, video_error>>
       ELSE /\ clips' = << >>
            /\ video_status' = "TRANSCRIBED"
            /\ video_error' = "null"
            /\ pipe_pc' = "loadTranscription"
            /\ UNCHANGED pipe_thrown
    /\ UNCHANGED <<pipe_route, pipe_video, transcription, pipe_highlights, pipe_started,
                   pipe_files, pipe_others>>

\* regenerate/route.ts:65-74: without a transcription the route answers 400.
LoadTranscription ==
    /\ pipe_pc = "loadTranscription"
    /\ pipe_pc' = IF transcription = "none" THEN "done" ELSE "markProcessing"
    /\ UNCHANGED <<pipe_route, pipe_video, video_status, video_error, transcription, clips,
                   pipe_highlights, pipe_started, pipe_thrown,
                   pipe_files, pipe_others>>

\* The process route and the example start at the transcription step.
StartProcess ==
    /\ pipe_pc = "start"
    /\ pipe_route \in {"process", "example"}
    /\ pipe_pc' = "markTranscribing"
    /\ UNCHANGED <<pipe_route, pipe_video, video_status, video_error, transcription, clips,
                   pipe_highlights, pipe_started, pipe_thrown,
                   pipe_files, pipe_others>>

\* video.update({ status: 'TRANSCRIBING' })
MarkTranscribing ==
    /\ pipe_pc = "markTranscribing"
    /\ video_status' = "TRANSCRIBING"
    /\ pipe_pc' = "transcribe"
    /\ UNCHANGED <<pipe_route, pipe_video, video_error, transcription, clips,
                   pipe_highlights, pipe_started, pipe_thrown,
                   pipe_files, pipe_others>>

\* await transcribeVideo(...): it answers or throws.
Transcribe ==
    /\ pipe_pc = "transcribe"
    /\ \/ /\ pipe_pc' = "saveTranscription"
          /\ UNCHANGED pipe_thrown
       \/ /\ pipe_pc' = "catch"
          /\ pipe_thrown' = [at |-> "transcribe", message |-> ErrorMessage("transcribeVideo")]
    /\ UNCHANGED <<pipe_route, pipe_video, video_status, video_error, transcription, clips,
                   pipe_highlights, pipe_started, pipe_files, pipe_others>>

\* transcription.create: videoId is unique, so it throws when the video
\* already has a transcription.
SaveTranscription ==
    /\ pipe_pc = "saveTranscription"
    /\ IF transcription = "none"
       THEN /\ transcription' = "new"
            /\ pipe_pc' = "markTranscribed"
            /\ UNCHANGED pipe_thrown
       ELSE /\ pipe_pc' = "catch"
            /\ pipe_thrown' = [at |-> "save", message |-> ErrorMessage("transcription.create")]
            /\ UNCHANGED transcription
    /\ UNCHANGED <<pipe_route, pipe_video, video_status, video_error, clips,
                   pipe_highlights, pipe_started, pipe_files, pipe_others>>

\* video.update({ status: 'TRANSCRIBED' })
MarkTranscribed ==
    /\ pipe_pc = "markTranscribed"
    /\ video_status' = "TRANSCRIBED"
    /\ pipe_pc' = "markProcessing"
    /\ UNCHANGED <<pipe_route, pipe_video, video_error, transcription, clips,
                   pipe_highlights, pipe_started, pipe_thrown,
                   pipe_files, pipe_others>>

\* video.update({ status: 'PROCESSING' })
MarkProcessing ==
    /\ pipe_pc = "markProcessing"
    /\ video_status' = "PROCESSING"
    /\ pipe_pc' = "detect"
    /\ UNCHANGED <<pipe_route, pipe_video, video_error, transcription, clips,
                   pipe_highlights, pipe_started, pipe_thrown,
                   pipe_files, pipe_others>>

\* await detectHighlights(...): it returns some highlights or throws.
Detect ==
    /\ pipe_pc = "detect"
    /\ \/ /\ \E n \in 0..MaxPipelineHighlights : pipe_highlights' = n
          /\ pipe_pc' = "loop"
          /\ UNCHANGED pipe_thrown
       \/ /\ pipe_pc' = "catch"
          /\ pipe_thrown' = [at |-> "detect", message |-> ErrorMessage("detectHighlights")]
          /\ UNCHANGED pipe_highlights
    /\ UNCHANGED <<pipe_route, pipe_video, video_status, video_error, transcription, clips,
                   pipe_started, pipe_files, pipe_others>>

\* A clip.create that is outside the per-clip try in every pipeline.
ClipCreateNeverInsideTry(route) == FALSE

\* part_010:97-99, part_009:129-131, regenerate/route.ts:107-109: the routes
\* create the clip record inside the per-clip try; pipeline-example.ts:121
\* creates it before the try.
ClipCreateInsideTry(route) == route \in Routes

\* pipeline-example.ts:197-205 records the failure on the clip; the catch
\* blocks of the routes (part_010:192-195, part_009:222-225,
\* regenerate/route.ts:200-203) only log it.
CatchRecordsFailure(route) == route = "example"

NewClip(h) ==
    [run |-> "new", highlight |-> h, status |-> "GENERATING", errorMessage |-> "null"]

Started(h, outcome) == Append(pipe_started, [highlight |-> h, outcome |-> outcome])

\* The next iteration of the for loop: clip.create for the next highlight.
ClipCreate ==
    /\ pipe_pc = "loop"
    /\ Len(pipe_started) < pipe_highlights
    /\ LET h == Len(pipe_started) + 1
       IN  \/ /\ clips' = Append(clips, NewClip(h))
              /\ pipe_started' = Started(h, "handling")
              /\ pipe_pc' = "handle"
              /\ UNCHANGED pipe_thrown
           \/ /\ pipe_started' = Started(h, "failed at create")
              /\ UNCHANGED clips
              /\ IF ClipCreateInsideTry(pipe_route)
                 THEN pipe_pc' = "loop" /\ UNCHANGED pipe_thrown
                 ELSE /\ pipe_pc' = "catch"
                      /\ pipe_thrown' = [at |-> "clip.create",
                                         message |-> ErrorMessage("clip.create")]
    /\ UNCHANGED <<pipe_route, pipe_video, video_status, video_error, transcription,
                   pipe_highlights, pipe_files, pipe_others>>

SetOutcome(outcome) ==
    [pipe_started EXCEPT ![Len(pipe_started)].outcome = outcome]

SetClip(status, message) ==
    [clips EXCEPT ![Len(clips)].status = status, ![Len(clips)].errorMessage = message]

\* The temp files of a clip that exist when its handling throws at a stage.
\* Routes: input-<clipId>.mp4 is written by the download and clip-<clipId>.mp4
\* by createClip, and both are unlinked only as the last statements of the
\* try.  Example: no download, /tmp/clip-<clipId>.mp4 is never unlinked.
FilesLeft(route, stage) ==
    IF route \in Routes
    THEN CASE stage \in {"captions", "download", "done"} -> {}
           [] stage = "render" -> {"input"}
           [] stage \in {"upload", "update", "unlink input"} -> {"input", "clip"}
           [] stage = "unlink clip" -> {"clip"}
    ELSE CASE stage \in {"captions", "render"} -> {}
           [] OTHER -> {"clip"}

FilesOf(h, names) == { [highlight |-> h, file |-> f] : f \in names }

\* The rest of the loop body: captions, download, createClip, upload and
\* clip.update READY, and in the routes the deletion of the two temp files;
\* a throw at any stage ends in the per-clip catch.
ClipHandle ==
    /\ pipe_pc = "handle"
    /\ LET h == Len(pipe_started)
       IN  \/ /\ clips' = SetClip("READY", "null")
              /\ pipe_started' = SetOutcome("ready")
              /\ pipe_files' = pipe_files \cup
                    FilesOf(h, FilesLeft(pipe_route, "done"))
           \/ \E stage \in ClipStages :
                /\ pipe_started' = SetOutcome("failed")
                /\ clips' = IF CatchRecordsFailure(pipe_route)
                            THEN SetClip("FAILED", ErrorMessage(stage))
                            ELSE clips
                /\ pipe_files' = pipe_files \cup
                      FilesOf(h, FilesLeft(pipe_route, stage))
           \/ \E stage \in {"unlink input", "unlink clip"} :
                /\ pipe_route \in Routes
                /\ clips' = SetClip("READY", "null")
                /\ pipe_started' = SetOutcome("failed after ready")
                /\ pipe_files' = pipe_files \cup
                      FilesOf(h, FilesLeft(pipe_route, stage))
    /\ pipe_pc' = "loop"
    /\ UNCHANGED <<pipe_route, pipe_video, video_status, video_error, transcription,
                   pipe_highlights, pipe_thrown, pipe_others>>

\* A loop that is left before its last iteration.
LoopFinishedAnyTime == TRUE

\* for (const highlight of highlights.highlights): the statement after the
\* loop runs when every highlight has had its iteration.
LoopFinished == Len(pipe_started) = pipe_highlights

\* After the loop: video.update({ status: 'READY' }) and the response.
MarkReady ==
    /\ pipe_pc = "loop"
    /\ LoopFinished
    /\ video_status' = "READY"
    /\ pipe_pc' = "done"
    /\ UNCHANGED <<pipe_route, pipe_video, video_error, transcription, clips,
                   pipe_highlights, pipe_started, pipe_thrown,
                   pipe_files, pipe_others>>

\* An outer catch that only rethrows.
RouteCatchRethrows(route) == FALSE

\* part_010:213-223, part_009:243-253, regenerate/route.ts:221-232 mark the
\* video FAILED with the error's message; pipeline-example.ts:220-223 only
\* rethrows.
RouteCatchMarksFailed(route) == route \in Routes

\* The outer catch block.
PipelineCatch ==
    /\ pipe_pc = "catch"
    /\ IF RouteCatchMarksFailed(pipe_route)
       THEN /\ video_status' = "FAILED"
            /\ video_error' = pipe_thrown.message
       ELSE UNCHANGED <<video_status, video_error>>
    /\ pipe_pc' = "done"
    /\ UNCHANGED <<pipe_route, pipe_video, transcription, clips,
                   pipe_highlights, pipe_started, pipe_thrown,
                   pipe_files, pipe_others>>

\* video.findUnique({ include: { transcription: true } }) and the clips of
\* the video at that moment.
VideoRecord ==
    [status |-> video_status, errorMessage |-> video_error,
     transcription |-> transcription, clips |-> clips]

pipe_Start ==
    /\ pipe_pc = "start"
    /\ pipe_route \in Pipelines
    /\ \E prior \in PriorStates :
          /\ pipe_route = "example" =>
                prior = [status |-> "UPLOADED", transcription |-> "none", clips |-> << >>]
          /\ video_status = prior.status
          /\ transcription = prior.transcription
          /\ clips = prior.clips
          /\ video_error = IF prior.status = "FAILED"
                           THEN ErrorMessage("an earlier run")
                           ELSE "null"
    /\ pipe_highlights = 0
    /\ pipe_started = << >>
    /\ pipe_thrown = NoError
    /\ pipe_files = {}
    /\ pipe_video = VideoRecord

pipe_Idle ==
    /\ pipe_pc = "idle"
    /\ pipe_route = "process"
    /\ video_status = "UPLOADED"
    /\ video_error = "null"
    /\ transcription = "none"
    /\ clips = << >>
    /\ pipe_highlights = 0
    /\ pipe_started = << >>
    /\ pipe_thrown = NoError
    /\ pipe_files = {}
    /\ pipe_video = VideoRecord

(***************************************************************************)
(* Two invocations of createClip in one process, with cropToVertical and   *)
(* burnCaptions on.  Temp paths are built from Date.now(): the timestamp   *)
(* taken at the start of createClip names the extracted and the cropped    *)
(* file, the one taken in burnCaptions names the subtitle file.  A media   *)
(* engine stage takes at least a millisecond.                              *)
(***************************************************************************)
MaxClock == 8

Invocations == {1, 2}

\* path.join(tempDir, `clip-${timestamp}-extracted.mp4`) and the like.
TempPath(kind, stamp) == [kind |-> kind, stamp |-> stamp]

FileExists(path) == \E f \in cc_files : f.path = path

\* The file exists and its content was written by another invocation.
Foreign(path, i) == \E f \in cc_files : f.path = path /\ f.writer # i

WithFile(files, path, i) ==
    { f \in files : f.path # path } \cup { [path |-> path, writer |-> i] }

WithoutFile(files, path) == { f \in files : f.path # path }

Access(kind, i, path) ==
    IF Foreign(path, i) THEN { [kind |-> kind, by |-> i, path |-> path] } ELSE {}

\* Time passes.
ClockTick ==
    /\ cc_now < MaxClock
    /\ cc_now' = cc_now + 1
    /\ UNCHANGED <<cc_pc, cc_timestamp, cc_assTime, cc_files, cc_events, cc_others>>

\* processor.ts:284-285, const timestamp = Date.now().
StartCreateClip ==
    \E i \in Invocations :
        /\ cc_pc[i] = "idle"
        /\ cc_timestamp' = [cc_timestamp EXCEPT ![i] = cc_now]
        /\ cc_pc' = [cc_pc EXCEPT ![i] = "extract"]
        /\ UNCHANGED <<cc_now, cc_assTime, cc_files, cc_events, cc_others>>

\* processor.ts:289-290, extractClip writes the extracted file.
ExtractStage ==
    \E i \in Invocations :
        LET out == TempPath("extracted", cc_timestamp[i])
        IN  /\ cc_pc[i] = "extract"
            /\ cc_now < MaxClock
            /\ cc_now' = cc_now + 1
            /\ cc_events' = cc_events \cup Access("overwrote", i, out)
            /\ cc_files' = WithFile(cc_files, out, i)
            /\ cc_pc' = [cc_pc EXCEPT ![i] = "crop"]
            /\ UNCHANGED <<cc_timestamp, cc_assTime, cc_others>>

\* processor.ts:295-296, cropToVertical reads the extracted file and writes
\* the cropped one; it fails when its input is missing, and it may fail.
CropStage ==
    \E i \in Invocations :
        LET in == TempPath("extracted", cc_timestamp[i])
            out == TempPath("cropped", cc_timestamp[i])
        IN  /\ cc_pc[i] = "crop"
            /\ cc_now < MaxClock
            /\ cc_now' = cc_now + 1
            /\ \/ /\ FileExists(in)
                  /\ cc_events' = cc_events \cup Access("read", i, in)
                                            \cup Access("overwrote", i, out)
                  /\ cc_files' = WithFile(cc_files, out, i)
                  /\ cc_pc' = [cc_pc EXCEPT ![i] = "unlinkExtracted"]
               \/ /\ cc_pc' = [cc_pc EXCEPT ![i] = "catch"]
                  /\ UNCHANGED <<cc_files, cc_events>>
            /\ UNCHANGED <<cc_timestamp, cc_assTime, cc_others>>

\* processor.ts:297, await fs.unlink(extractedPath); it rejects when the
\* file is gone.
UnlinkExtractedFile ==
    \E i \in Invocations :
        LET file == TempPath("extracted", cc_timestamp[i])
        IN  /\ cc_pc[i] = "unlinkExtracted"
            /\ cc_events' = cc_events \cup Access("deleted", i, file)
            /\ cc_files' = WithoutFile(cc_files, file)
            /\ cc_pc' = [cc_pc EXCEPT ![i] =
                            IF FileExists(file) THEN "writeAss" ELSE "catch"]
            /\ UNCHANGED <<cc_now, cc_timestamp, cc_assTime, cc_others>>

\* processor.ts:173-176, burnCaptions names the subtitle file by Date.now()
\* and writes it.
WriteAssStage ==
    \E i \in Invocations :
        LET out == TempPath("ass", cc_now)
        IN  /\ cc_pc[i] = "writeAss"
            /\ cc_assTime' = [cc_assTime EXCEPT ![i] = cc_now]
            /\ cc_events' = cc_events \cup Access("overwrote", i, out)
            /\ cc_files' = WithFile(cc_files, out, i)
            /\ cc_pc' = [cc_pc EXCEPT ![i] = "burn"]
            /\ UNCHANGED <<cc_now, cc_timestamp, cc_others>>

\* processor.ts:181-205, the media engine reads the cropped file and the
\* subtitle file; both handlers unlink the subtitle file, ignoring errors.
BurnStage ==
    \E i \in Invocations :
        LET in == TempPath("cropped", cc_timestamp[i])
            ass == TempPath("ass", cc_assTime[i])
        IN  /\ cc_pc[i] = "burn"
            /\ cc_now < MaxClock
            /\ cc_now' = cc_now + 1
            /\ cc_files' = WithoutFile(cc_files, ass)
            /\ \/ /\ FileExists(in) /\ FileExists(ass)
                  /\ cc_events' = cc_events \cup Access("read", i, in)
                                    \cup Access("read", i, ass)
                                    \cup Access("deleted", i, ass)
                  /\ cc_pc' = [cc_pc EXCEPT ![i] = "unlinkProcessed"]
               \/ /\ cc_events' = cc_events \cup Access("deleted", i, ass)
                  /\ cc_pc' = [cc_pc EXCEPT ![i] = "catch"]
            /\ UNCHANGED <<cc_timestamp, cc_assTime, cc_others>>

\* processor.ts:304, await fs.unlink(processedPath).
UnlinkProcessedFile ==
    \E i \in Invocations :
        LET file == TempPath("cropped", cc_timestamp[i])
        IN  /\ cc_pc[i] = "unlinkProcessed"
            /\ cc_events' = cc_events \cup Access("deleted", i, file)
            /\ cc_files' = WithoutFile(cc_files, file)
            /\ cc_pc' = [cc_pc EXCEPT ![i] =
                            IF FileExists(file) THEN "returned" ELSE "catch"]
            /\ UNCHANGED <<cc_now, cc_timestamp, cc_assTime, cc_others>>

\* processor.ts:309-325, the catch block unlinks the extracted and the
\* cropped path of its timestamp, ignoring errors, and rethrows.
CatchUnlinkBoth ==
    \E i \in Invocations :
        LET extracted == TempPath("extracted", cc_timestamp[i])
            cropped == TempPath("cropped", cc_timestamp[i])
        IN  /\ cc_pc[i] = "catch"
            /\ cc_events' = cc_events \cup Access("deleted", i, extracted)
                                      \cup Access("deleted", i, cropped)
            /\ cc_files' = WithoutFile(WithoutFile(cc_files, extracted), cropped)
            /\ cc_pc' = [cc_pc EXCEPT ![i] = "threw"]
            /\ UNCHANGED <<cc_now, cc_timestamp, cc_assTime, cc_others>>

cc_Start ==
    /\ cc_now = 1
    /\ cc_pc = [i \in Invocations |-> "idle"]
    /\ cc_timestamp = [i \in Invocations |-> 0]
    /\ cc_assTime = [i \in Invocations |-> 0]
    /\ cc_files = {}
    /\ cc_events = {}

cc_Idle ==
    /\ cc_now = 0
    /\ cc_pc = [i \in Invocations |-> "off"]
    /\ cc_timestamp = [i \in Invocations |-> 0]
    /\ cc_assTime = [i \in Invocations |-> 0]
    /\ cc_files = {}
    /\ cc_events = {}

(***************************************************************************)
(* cropToVertical: the crop rectangle and the scale it hands to the media  *)
(* engine.  Dimensions are integers; sourceWidth / sourceHeight > 9 / 16   *)
(* is 16 * sourceWidth > 9 * sourceHeight, and Math.floor of a quotient of *)
(* non-negative integers is \div.  A width or height of 0 stands for a     *)
(* stream without that dimension.                                          *)
(***************************************************************************)
MaxSourceDim == 12

\* { width = 1080, height = 1920, position = 'center' } (processor.ts:65)
DefaultTargetWidth == 1080
DefaultTargetHeight == 1920

SourceSizes ==
    { [width |-> w, height |-> h] : w, h \in 0..MaxSourceDim }
    \cup { [width |-> 1920, height |-> 1080], [width |-> 1080, height |-> 1920],
           [width |-> 1280, height |-> 720], [width |-> 608, height |-> 1080],
           [width |-> 607, height |-> 1080], [width |-> 1080, height |-> 1080] }

CropOptions ==
    { [width |-> t[1], height |-> t[2], position |-> pos] :
        t \in { <<DefaultTargetWidth, DefaultTargetHeight>>, <<720, 1280>> },
        pos \in {"center", "top", "bottom"} }

NoFilters ==
    [crop |-> [w |-> 0, h |-> 0, x |-> 0, y |-> 0], scale |-> [w |-> 0, h |-> 0]]

\* A crop that is centred whatever the position option says.
CropYAlwaysCentered(position, sourceHeight, cropHeight) ==
    (sourceHeight - cropHeight) \div 2

\* processor.ts:122-128, the vertical offset for the position option.
CropY(position, sourceHeight, cropHeight) ==
    IF position = "top" THEN 0
    ELSE IF position = "bottom" THEN sourceHeight - cropHeight
    ELSE (sourceHeight - cropHeight) \div 2

\* processor.ts:86-153, the two filters for a source of the given size.
CropFilters(sourceWidth, sourceHeight, options) ==
    IF 16 * sourceWidth > 9 * sourceHeight
    THEN LET cropWidth == (sourceHeight * 9) \div 16
         IN  [crop |-> [w |-> cropWidth, h |-> sourceHeight,
                        x |-> (sourceWidth - cropWidth) \div 2, y |-> 0],
              scale |-> [w |-> options.width, h |-> options.height]]
    ELSE LET cropHeight == (sourceWidth * 16) \div 9
         IN  [crop |-> [w |-> sourceWidth, h |-> cropHeight,
                        x |-> 0,
                        y |-> CropY(options.position, sourceHeight, cropHeight)],
              scale |-> [w |-> options.width, h |-> options.height]]

\* cropToVertical: it rejects when a dimension is missing, else it runs the
\* media engine with the two filters (the engine itself may still fail).
CropToVerticalFilters ==
    /\ crop_pc = "ready"
    /\ IF crop_source.width = 0 \/ crop_source.height = 0
       THEN /\ crop_pc' = "rejected"
            /\ UNCHANGED crop_filters
       ELSE /\ crop_filters' =
                  CropFilters(crop_source.width, crop_source.height, crop_options)
            /\ crop_pc' \in {"resolved", "rejected"}
    /\ UNCHANGED <<crop_source, crop_options, crop_others>>

crop_Start ==
    /\ crop_pc = "ready"
    /\ crop_source \in SourceSizes
    /\ crop_options \in CropOptions
    /\ crop_filters = NoFilters

crop_Idle ==
    /\ crop_pc = "idle"
    /\ crop_source = [width |-> 0, height |-> 0]
    /\ crop_options = [width |-> DefaultTargetWidth, height |-> DefaultTargetHeight,
                       position |-> "center"]
    /\ crop_filters = NoFilters

(***************************************************************************)
(* The two encoders of the subtitle track applied on their own:            *)
(* formatASSTime to a time, hexToASSColor to a colour and an opacity.      *)
(***************************************************************************)
\* The bytes colours are built from, as two hex digits in either case.
BytePool == { <<"0", "0">>, <<"F", "F">>, <<"D", "7">>, <<"f", "f">>, <<"0", "a">> }

\* #RRGGBB and RRGGBB.
ColorPool ==
    { prefix \o r \o g \o b :
        prefix \in { << >>, <<"#">> }, r \in BytePool, g \in BytePool, b \in BytePool }

\* Opacities in tenths; the code uses 1 and 0.8.
AlphaPool == {0, 5, 8, 9, 10}

EncoderInputs ==
    { [kind |-> "time", ms |-> t, hex |-> << >>, alpha10 |-> 10] : t \in TimeDomain }
    \cup { [kind |-> "color", ms |-> 0, hex |-> c, alpha10 |-> a] :
             c \in ColorPool, a \in AlphaPool }

FormatASSTime ==
    /\ enc_pc = "ready"
    /\ enc_input.kind = "time"
    /\ enc_output' = formatASSTime(enc_input.ms)
    /\ enc_pc' = "done"
    /\ UNCHANGED <<enc_input, enc_others>>

HexToASSColor ==
    /\ enc_pc = "ready"
    /\ enc_input.kind = "color"
    /\ enc_output' = hexToASSColor(enc_input.hex, enc_input.alpha10)
    /\ enc_pc' = "done"
    /\ UNCHANGED <<enc_input, enc_others>>

enc_Start ==
    /\ enc_pc = "ready"
    /\ enc_input \in EncoderInputs
    /\ enc_output = << >>

enc_Idle ==
    /\ enc_pc = "idle"
    /\ enc_input = [kind |-> "time", ms |-> 0, hex |-> << >>, alpha10 |-> 10]
    /\ enc_output = << >>

(***************************************************************************)
(* Several requests on one video.  The three routes take no lock and       *)
(* check no "run in progress" flag, so a request may arrive at any time;   *)
(* between two awaited calls of one request the calls of another may run.  *)
(* The video starts as the upload leaves it: UPLOADED, no transcription,   *)
(* no clips.                                                               *)
(***************************************************************************)
MaxRuns == 2
MaxHighlightsPerRun == 2

Runs == 1..MaxRuns

Active(r) == rq_pc[r] \notin {"new", "done"}

NoClips == [r \in Runs |-> 0]

\* The route handler up to its first write: session, company, the video and
\* the ownership and storageUrl checks, which pass for an uploaded video of
\* the caller.  No check looks at a run in progress.
ArriveRequest ==
    \E r \in Runs, route \in Routes :
        /\ rq_pc[r] = "new"
        /\ \A q \in Runs : q < r => rq_pc[q] # "new"
        /\ rq_route' = [rq_route EXCEPT ![r] = route]
        /\ rq_pc' = [rq_pc EXCEPT ![r] =
                        IF route = "process" THEN "markTranscribing" ELSE "execute"]
        /\ rq_overlap' = (rq_overlap \/ \E q \in Runs : Active(q))
        /\ UNCHANGED <<rq_status, rq_transcription, rq_clips, rq_left, rq_others>>

\* RetryVideoProcessing.execute
ExecuteRetry ==
    \E r \in Runs :
        /\ rq_pc[r] = "execute"
        /\ rq_route[r] = "retry"
        /\ rq_transcription' = 0
        /\ rq_clips' = NoClips
        /\ rq_status' = "UPLOADED"
        /\ rq_pc' = [rq_pc EXCEPT ![r] = "markTranscribing"]
        /\ UNCHANGED <<rq_route, rq_left, rq_overlap, rq_others>>

\* RegenerateClips.execute
ExecuteRegenerate ==
    \E r \in Runs :
        /\ rq_pc[r] = "execute"
        /\ rq_route[r] = "regenerate"
        /\ IF \/ rq_status \notin RegenerateAllowedStatuses
              \/ rq_status # "FAILED" /\ rq_transcription = 0
           THEN /\ rq_pc' = [rq_pc EXCEPT ![r] = "catch"]
                /\ UNCHANGED <<rq_clips, rq_status>>
           ELSE /\ rq_clips' = NoClips
                /\ rq_status' = "TRANSCRIBED"
                /\ rq_pc' = [rq_pc EXCEPT ![r] = "findTranscription"]
        /\ UNCHANGED <<rq_route, rq_transcription, rq_left, rq_overlap, rq_others>>

\* regenerate/route.ts:65-74: transcription.findUnique, 400 when there is none.
FindTranscription ==
    \E r \in Runs :
        /\ rq_pc[r] = "findTranscription"
        /\ rq_pc' = [rq_pc EXCEPT ![r] =
                        IF rq_transcription = 0 THEN "done" ELSE "markProcessing"]
        /\ UNCHANGED <<rq_status, rq_transcription, rq_clips, rq_route, rq_left,
                       rq_overlap, rq_others>>

\* video.update({ status: 'TRANSCRIBING' })
WriteTranscribing ==
    \E r \in Runs :
        /\ rq_pc[r] = "markTranscribing"
        /\ rq_status' = "TRANSCRIBING"
        /\ rq_pc' = [rq_pc EXCEPT ![r] = "transcribe"]
        /\ UNCHANGED <<rq_transcription, rq_clips, rq_route, rq_left, rq_overlap,
                       rq_others>>

\* await transcribeVideo(...): it answers or throws.
CallTranscribe ==
    \E r \in Runs :
        /\ rq_pc[r] = "transcribe"
        /\ \E next \in {"save", "catch"} : rq_pc' = [rq_pc EXCEPT ![r] = next]
        /\ UNCHANGED <<rq_status, rq_transcription, rq_clips, rq_route, rq_left,
                       rq_overlap, rq_others>>

\* transcription.create: videoId is unique.
CreateTranscription ==
    \E r \in Runs :
        /\ rq_pc[r] = "save"
        /\ IF rq_transcription = 0
           THEN /\ rq_transcription' = r
                /\ rq_pc' = [rq_pc EXCEPT ![r] = "markTranscribed"]
           ELSE /\ rq_pc' = [rq_pc EXCEPT ![r] = "catch"]
                /\ UNCHANGED rq_transcription
        /\ UNCHANGED <<rq_status, rq_clips, rq_route, rq_left, rq_overlap, rq_others>>

\* video.update({ status: 'TRANSCRIBED' })
WriteTranscribed ==
    \E r \in Runs :
        /\ rq_pc[r] = "markTranscribed"
        /\ rq_status' = "TRANSCRIBED"
        /\ rq_pc' = [rq_pc EXCEPT ![r] = "markProcessing"]
        /\ UNCHANGED <<rq_transcription, rq_clips, rq_route, rq_left, rq_overlap,
                       rq_others>>

\* video.update({ status: 'PROCESSING' })
WriteProcessing ==
    \E r \in Runs :
        /\ rq_pc[r] = "markProcessing"
        /\ rq_status' = "PROCESSING"
        /\ rq_pc' = [rq_pc EXCEPT ![r] = "detect"]
        /\ UNCHANGED <<rq_transcription, rq_clips, rq_route, rq_left, rq_overlap,
                       rq_others>>

\* await detectHighlights(..., { maxHighlights: 5, ... }): at most
\* maxHighlights highlights, or a throw.
CallDetect ==
    \E r \in Runs :
        /\ rq_pc[r] = "detect"
        /\ \/ /\ \E n \in 0..MaxHighlightsPerRun : rq_left' = [rq_left EXCEPT ![r] = n]
              /\ rq_pc' = [rq_pc EXCEPT ![r] = "loop"]
           \/ /\ rq_pc' = [rq_pc EXCEPT ![r] = "catch"]
              /\ UNCHANGED rq_left
        /\ UNCHANGED <<rq_status, rq_transcription, rq_clips, rq_route, rq_overlap,
                       rq_others>>

\* One iteration of the loop: clip.create and the handling of the clip; a
\* throw in the iteration is logged and the loop goes on.
CreateClipRecord ==
    \E r \in Runs :
        /\ rq_pc[r] = "loop"
        /\ rq_left[r] > 0
        /\ rq_left' = [rq_left EXCEPT ![r] = @ - 1]
        /\ \/ rq_clips' = [rq_clips EXCEPT ![r] = @ + 1]
           \/ UNCHANGED rq_clips
        /\ UNCHANGED <<rq_status, rq_transcription, rq_pc, rq_route, rq_overlap,
                       rq_others>>

\* video.update({ status: 'READY' }) after the loop.
WriteReady ==
    \E r \in Runs :
        /\ rq_pc[r] = "loop"
        /\ rq_left[r] = 0
        /\ rq_status' = "READY"
        /\ rq_pc' = [rq_pc EXCEPT ![r] = "done"]
        /\ UNCHANGED <<rq_transcription, rq_clips, rq_route, rq_left, rq_overlap,
                       rq_others>>

\* The outer catch: video.update({ status: 'FAILED', errorMessage }).
WriteFailed ==
    \E r \in Runs :
        /\ rq_pc[r] = "catch"
        /\ rq_status' = "FAILED"
        /\ rq_pc' = [rq_pc EXCEPT ![r] = "done"]
        /\ UNCHANGED <<rq_transcription, rq_clips, rq_route, rq_left, rq_overlap,
                       rq_others>>

rq_Start ==
    /\ rq_status = "UPLOADED"
    /\ rq_transcription = 0
    /\ rq_clips = NoClips
    /\ rq_pc = [r \in Runs |-> "new"]
    /\ rq_route = [r \in Runs |-> "process"]
    /\ rq_left = [r \in Runs |-> 0]
    /\ rq_overlap = FALSE

rq_Idle ==
    /\ rq_status = "UPLOADED"
    /\ rq_transcription = 0
    /\ rq_clips = NoClips
    /\ rq_pc = [r \in Runs |-> "off"]
    /\ rq_route = [r \in Runs |-> "process"]
    /\ rq_left = [r \in Runs |-> 0]
    /\ rq_overlap = FALSE

(***************************************************************************)
(* The words of one clip (part_010:116-128, part_009:148-160,              *)
(* regenerate/route.ts:126-138): the transcript words inside the           *)
(* highlight, made relative to its start.  Times are in milliseconds.      *)
(* Transcript words are as the transcription delivers them: start <= end.  *)
(***************************************************************************)
MaxTranscriptWords == 2

WordTimeGrid == {0, 500, 1000, 1500}

TranscriptWordPool ==
    { word \in [word : {"hola", "mundo"}, start : WordTimeGrid, end : WordTimeGrid] :
        word.start <= word.end }

HighlightSpans ==
    { h \in [startTime : WordTimeGrid, endTime : WordTimeGrid] :
        h.startTime < h.endTime }

\* transcription.words.filter(word => word.start >= highlight.startTime
\*                                    && word.end <= highlight.endTime)
RECURSIVE ClipWords(_, _)
ClipWords(words, highlight) ==
    IF words = << >> THEN << >>
    ELSE LET word == Head(words)
             rest == ClipWords(Tail(words), highlight)
         IN  IF word.start >= highlight.startTime /\ word.end <= highlight.endTime
             THEN <<word>> \o rest
             ELSE rest

\* The words as they are, with the times of the transcript.
AdjustedWordsUnshifted(clipWords, highlight) == clipWords

\* clipWords.map(word => ({ word: word.word,
\*                          start: word.start - highlight.startTime,
\*                          end: word.end - highlight.startTime }))
AdjustedWords(clipWords, highlight) ==
    [i \in DOMAIN clipWords |->
        [word |-> clipWords[i].word,
         start |-> clipWords[i].start - highlight.startTime,
         end |-> clipWords[i].end - highlight.startTime]]

\* The two statements before generateCaptions(adjustedWords, ...).
ExtractClipWords ==
    /\ cw_pc = "ready"
    /\ cw_adjusted' = AdjustedWords(ClipWords(cw_words, cw_highlight), cw_highlight)
    /\ cw_pc' = "done"
    /\ UNCHANGED <<cw_words, cw_highlight, cw_others>>

cw_Start ==
    /\ cw_pc = "ready"
    /\ cw_words \in SeqUpTo(TranscriptWordPool, MaxTranscriptWords)
    /\ cw_highlight \in HighlightSpans
    /\ cw_adjusted = << >>

cw_Idle ==
    /\ cw_pc = "idle"
    /\ cw_words = << >>
    /\ cw_highlight = [startTime |-> 0, endTime |-> 500]
    /\ cw_adjusted = << >>

(***************************************************************************)
(* Specifications: each component is checked on its own, the others idle.  *)
(***************************************************************************)
InitHighlights == hl_Start /\ cap_Idle /\ clip_Idle /\ pipe_Idle /\ cc_Idle /\ crop_Idle /\ enc_Idle /\ rq_Idle /\ cw_Idle

NextHighlights == DetectHighlights

SpecHighlights == InitHighlights /\ [][NextHighlights]_vars

InitCaptions == hl_Idle /\ cap_Start /\ clip_Idle /\ pipe_Idle /\ cc_Idle /\ crop_Idle /\ enc_Idle /\ rq_Idle /\ cw_Idle

NextCaptions == GenerateCaptions \/ CaptionsToASS

SpecCaptions == InitCaptions /\ [][NextCaptions]_vars

InitCaptionOptions == hl_Idle /\ cap_StartOptions /\ clip_Idle /\ pipe_Idle /\ cc_Idle /\ crop_Idle /\ enc_Idle /\ rq_Idle /\ cw_Idle

NextCaptionOptions == GenerateCaptions

SpecCaptionOptions == InitCaptionOptions /\ [][NextCaptionOptions]_vars

InitClip == hl_Idle /\ cap_Idle /\ clip_Start /\ pipe_Idle /\ cc_Idle /\ crop_Idle /\ enc_Idle /\ rq_Idle /\ cw_Idle

NextClip ==
    \/ ExtractClip
    \/ CropToVertical
    \/ UnlinkExtracted
    \/ WriteAssFile
    \/ BurnCaptions
    \/ UnlinkProcessed
    \/ RenameToOutput
    \/ CatchCleanup

SpecClip == InitClip /\ [][NextClip]_vars

Init == hl_Idle /\ cap_Idle /\ clip_Idle /\ pipe_Start /\ cc_Idle /\ crop_Idle /\ enc_Idle /\ rq_Idle /\ cw_Idle

Next ==
    \/ PrepareRetry
    \/ PrepareRegenerate
    \/ LoadTranscription
    \/ StartProcess
    \/ MarkTranscribing
    \/ Transcribe
    \/ SaveTranscription
    \/ MarkTranscribed
    \/ MarkProcessing
    \/ Detect
    \/ ClipCreate
    \/ ClipHandle
    \/ MarkReady
    \/ PipelineCatch

Spec == Init /\ [][Next]_vars

InitConcurrentClips == hl_Idle /\ cap_Idle /\ clip_Idle /\ pipe_Idle /\ cc_Start /\ crop_Idle /\ enc_Idle /\ rq_Idle /\ cw_Idle

NextConcurrentClips ==
    \/ ClockTick
    \/ StartCreateClip
    \/ ExtractStage
    \/ CropStage
    \/ UnlinkExtractedFile
    \/ WriteAssStage
    \/ BurnStage
    \/ UnlinkProcessedFile
    \/ CatchUnlinkBoth

SpecConcurrentClips == InitConcurrentClips /\ [][NextConcurrentClips]_vars

InitCrop == hl_Idle /\ cap_Idle /\ clip_Idle /\ pipe_Idle /\ cc_Idle /\ crop_Start /\ enc_Idle /\ rq_Idle /\ cw_Idle

NextCrop == CropToVerticalFilters

SpecCrop == InitCrop /\ [][NextCrop]_vars

InitEncoders == hl_Idle /\ cap_Idle /\ clip_Idle /\ pipe_Idle /\ cc_Idle /\ crop_Idle /\ enc_Start /\ rq_Idle /\ cw_Idle

NextEncoders == FormatASSTime \/ HexToASSColor

SpecEncoders == InitEncoders /\ [][NextEncoders]_vars

InitRequests == hl_Idle /\ cap_Idle /\ clip_Idle /\ pipe_Idle /\ cc_Idle /\ crop_Idle /\ enc_Idle /\ rq_Start /\ cw_Idle

NextRequests ==
    \/ ArriveRequest
    \/ ExecuteRetry
    \/ ExecuteRegenerate
    \/ FindTranscription
    \/ WriteTranscribing
    \/ CallTranscribe
    \/ CreateTranscription
    \/ WriteTranscribed
    \/ WriteProcessing
    \/ CallDetect
    \/ CreateClipRecord
    \/ WriteReady
    \/ WriteFailed

SpecRequests == InitRequests /\ [][NextRequests]_vars

InitClipWords == hl_Idle /\ cap_Idle /\ clip_Idle /\ pipe_Idle /\ cc_Idle /\ crop_Idle /\ enc_Idle /\ rq_Idle /\ cw_Start

NextClipWords == ExtractClipWords

SpecClipWords == InitClipWords /\ [][NextClipWords]_vars


(***************************************************************************)
(* Claims about the highlight selector.                                    *)
(***************************************************************************)
Span(h) == h.endTime - h.startTime

\* Positions of the model's answer whose span is within [min, max].
InRangeIdx ==
    { j \in DOMAIN hl_response.highlights :
        /\ hl_options.minDuration <= Span(hl_response.highlights[j])
        /\ Span(hl_response.highlights[j]) <= hl_options.maxDuration }

\* The position of the k-th in-range candidate of the model's answer.
KthInRange(k) ==
    CHOOSE j \in InRangeIdx : Cardinality({ i \in InRangeIdx : i < j }) = k - 1

DefaultDurations ==
    /\ hl_options.minDuration = Sec(15)
    /\ hl_options.maxDuration = Sec(60)

\* C2: every returned highlight has minDuration <= endTime - startTime <=
\* maxDuration (inclusive), no candidate outside that range is returned, and
\* a candidate inside it is returned unless maxHighlights cuts it off; with
\* 15/60 spans of 1.5 s and 61 s are excluded and 25 s is retained, with
\* 10/20 [5,20] is retained and [0,1] excluded.
C2_DurationFilter ==
    hl_pc = "returned" =>
        /\ \A i \in DOMAIN hl_result :
              /\ hl_options.minDuration <= Span(hl_result[i])
              /\ Span(hl_result[i]) <= hl_options.maxDuration
        /\ \A j \in DOMAIN hl_response.highlights :
              LET c == hl_response.highlights[j]
                  noCut == Len(hl_response.highlights) <= hl_options.maxHighlights
              IN  /\ j \notin InRangeIdx => c \notin Range(hl_result)
                  /\ (j \in InRangeIdx /\ noCut) => c \in Range(hl_result)
                  /\ (DefaultDurations /\ Span(c) \in {15, Sec(61)})
                        => c \notin Range(hl_result)
                  /\ (DefaultDurations /\ Span(c) = Sec(25) /\ noCut)
                        => c \in Range(hl_result)
                  /\ (hl_options.minDuration = Sec(10) /\ hl_options.maxDuration = Sec(20))
                        => /\ (c.startTime = 0 /\ c.endTime = Sec(1))
                                => c \notin Range(hl_result)
                           /\ (c.startTime = Sec(5) /\ c.endTime = Sec(20) /\ noCut)
                                => c \in Range(hl_result)

\* C2 witness: with 15/60 the model answered spans of 1.5 s, 25 s and 61 s and
\* exactly the 25 s one came back.
C2_Witness ==
    /\ hl_pc = "returned"
    /\ DefaultDurations
    /\ { Span(c) : c \in Range(hl_response.highlights) } = {15, Sec(25), Sec(61)}
    /\ Len(hl_result) = 1
    /\ Span(hl_result[1]) = Sec(25)

\* C3: at most maxHighlights highlights are returned, and they are the first
\* maxHighlights in-range candidates, in the model's order, each one
\* unchanged in every field.
C3_FirstInOrder ==
    hl_pc = "returned" =>
        /\ Len(hl_result) <= hl_options.maxHighlights
        /\ Len(hl_result) = Min2(hl_options.maxHighlights, Cardinality(InRangeIdx))
        /\ \A k \in DOMAIN hl_result :
              hl_result[k] = hl_response.highlights[KthInRange(k)]

\* C3 witness: a rejected candidate stood before the kept one, the truncation
\* cut a later in-range candidate off, and that one had the higher score.
C3_Witness ==
    /\ hl_pc = "returned"
    /\ Len(hl_response.highlights) = 3
    /\ InRangeIdx = {2, 3}
    /\ hl_options.maxHighlights = 1
    /\ hl_result = <<hl_response.highlights[2]>>
    /\ hl_response.highlights[2].score < hl_response.highlights[3].score

(***************************************************************************)
(* Claims about the caption grouper and the subtitle cue encoder.          *)
(***************************************************************************)
\* The lowercased, trimmed texts of the input words.
InputTexts == { Trim(ToLowerCase(cap_words[i].word)) : i \in DOMAIN cap_words }

\* The lowercased, trimmed texts of the words of a caption list.
CaptionTexts(captions) ==
    UNION { { Trim(ToLowerCase(seg.words[j].word)) : j \in DOMAIN seg.words } :
              seg \in Range(captions) }

\* C1: generateCaptions returns a result only if every caption word,
\* lowercased and trimmed, is one of the lowercased, trimmed input words; if
\* the model's answer holds a word outside that set the call throws, the
\* error names exactly the offending words, and no captions are returned.
C1_NoHallucination ==
    /\ cap_pc \in {"returned", "encoded"} =>
          /\ cap_result = cap_response.object
          /\ CaptionTexts(cap_result.captions) \subseteq InputTexts
    /\ (/\ cap_pc \notin {"ready", "idle"}
        /\ cap_response.ok
        /\ ~(CaptionTexts(cap_response.object.captions) \subseteq InputTexts)) =>
          /\ cap_pc = "threw"
          /\ cap_error.kind = "hallucination"
          /\ Range(cap_error.words)
                = CaptionTexts(cap_response.object.captions) \ InputTexts
          /\ cap_result.captions = << >>

\* C1 witness: an answer whose second segment holds the word "no", absent
\* from the input, was rejected and the error names it.
C1_Witness ==
    /\ cap_pc = "threw"
    /\ Len(cap_response.object.captions) >= 2
    /\ CaptionTexts(SliceFirst(cap_response.object.captions, 1)) \subseteq InputTexts
    /\ Range(cap_error.words) = { <<"n", "o">> }
    /\ cap_result.captions = << >>

\* The number of words in the segments before segment i.
RECURSIVE WordsBefore(_, _)
WordsBefore(captions, i) ==
    IF i <= 1 THEN 0
    ELSE WordsBefore(captions, i - 1) + Len(captions[i - 1].words)

\* C4: captionsToASS emits one Dialogue line per caption word: the number
\* of lines is the sum of the segments' word counts, the lines come in
\* segment order then word order, and each line's Start and End encode the
\* startTime and endTime of its word.
C4_OneCuePerWord ==
    cap_pc = "encoded" =>
        LET captions == cap_result.captions
        IN  /\ Len(cap_ass) = WordsBefore(captions, Len(captions) + 1)
            /\ \A i \in DOMAIN captions : \A j \in DOMAIN captions[i].words :
                  LET line == cap_ass[WordsBefore(captions, i) + j]
                      word == captions[i].words[j]
                  IN  /\ line.start = formatASSTime(word.startTime)
                      /\ line.end = formatASSTime(word.endTime)
                      /\ line.text[j].word = word.word

\* C4 witness: segments of 3, 2 and 4 words were encoded into 9 lines.
C4_Witness ==
    /\ cap_pc = "encoded"
    /\ [i \in DOMAIN cap_result.captions |-> Len(cap_result.captions[i].words)]
          = <<3, 2, 4>>
    /\ Len(cap_ass) = 9
    /\ cap_ass[4].start = <<"0", ":", "0", "0", ":", "0", "0", ".", "5", "0">>

\* C5: every Dialogue line of a segment shows all the segment's words in
\* order; the word whose time window the line spans, and only that word,
\* carries the highlight colour, every other word the default white.
C5_OneActiveWord ==
    cap_pc = "encoded" =>
        LET captions == cap_result.captions
        IN  \A i \in DOMAIN captions : \A j \in DOMAIN captions[i].words :
              LET line == cap_ass[WordsBefore(captions, i) + j]
                  words == captions[i].words
              IN  /\ DOMAIN line.text = DOMAIN words
                  /\ \A k \in DOMAIN words :
                        /\ line.text[k].word = words[k].word
                        /\ line.text[k].override.c1 =
                              IF k = j
                              THEN hexToASSColor(cap_result.style.highlightColor, 10)
                              ELSE ASSWhite

ExpectedStages ==
    <<"extract">>
        \o (IF clip_opts.cropToVertical THEN <<"crop">> ELSE << >>)
        \o (IF clip_opts.burnCaptions /\ clip_opts.captions
            THEN <<"burn">> ELSE <<"rename">>)

\* C7: the stages of one createClip run in the order extract, crop (only if
\* cropToVertical), then burn (if burnCaptions and captions are given) or
\* rename; a stage starts only after its predecessor succeeded, reads the
\* predecessor's output file, and no stage runs twice.
C7_StagesInOrder ==
    /\ Len(clip_log) <= Len(ExpectedStages)
    /\ \A k \in DOMAIN clip_log :
          /\ clip_log[k].stage = ExpectedStages[k]
          /\ k = 1 => clip_log[k].input = SourcePath
          /\ k > 1 => /\ clip_log[k - 1].ok
                      /\ clip_log[k].input = clip_log[k - 1].output
          /\ \A m \in DOMAIN clip_log : m # k => clip_log[m].stage # clip_log[k].stage
    /\ clip_pc = "returned" =>
          /\ Len(clip_log) = Len(ExpectedStages)
          /\ \A k \in DOMAIN clip_log : clip_log[k].ok
          /\ clip_log[Len(clip_log)].output = OutputPath

\* C7 witness: extract, crop and burn ran, each once, and createClip returned.
C7_Witness ==
    /\ clip_pc = "returned"
    /\ [k \in DOMAIN clip_log |-> clip_log[k].stage] = <<"extract", "crop", "burn">>
    /\ clip_log[3].input = CroppedPath


(***************************************************************************)
(* Claims about the processing pipelines.                                  *)
(***************************************************************************)
NewClips == { i \in 1..Len(clips) : clips[i].run = "new" }

Decided(i) == pipe_started[i].outcome # "handling"

\* C8: in the process, retry and regenerate pipelines the highlights are
\* started in list order, each once; a highlight starts only after the one
\* before it has completed or failed; and no failure while handling one
\* highlight (clip record creation included) ends the loop: once detection
\* returned highlights, the run leaves the loop only after every highlight
\* has been attempted.
C8_SequentialIsolated ==
    pipe_route \in Routes =>
        /\ Len(pipe_started) <= pipe_highlights
        /\ \A i \in 1..Len(pipe_started) : pipe_started[i].highlight = i
        /\ \A i \in 1..(Len(pipe_started) - 1) : Decided(i)
        /\ (pipe_pc \in {"catch", "done"} /\ pipe_highlights > 0) =>
              /\ Len(pipe_started) = pipe_highlights
              /\ \A i \in 1..Len(pipe_started) : Decided(i)
              /\ pipe_thrown = NoError

\* A run of a route in which the first highlight failed at clip record
\* creation and the second one was still handled, to the end.
C8_Witness ==
    /\ pipe_route \in Routes
    /\ pipe_pc = "done"
    /\ pipe_highlights = 2
    /\ Len(pipe_started) = 2
    /\ pipe_started[1].outcome = "failed at create"
    /\ pipe_started[2].outcome = "ready"

\* C9: after a run has finished, every clip record the run created is READY
\* or FAILED, none is GENERATING, and a clip whose handling failed is FAILED
\* with the error's message.
C9_FailureRecordedOnClip ==
    pipe_pc = "done" =>
        \A i \in NewClips :
            /\ clips[i].status \in {"READY", "FAILED"}
            /\ clips[i].status = "FAILED" => clips[i].errorMessage # "null"

\* C10: when transcription or highlight detection fails in a process, retry
\* or regenerate run, the run ends with no clip record of this run, the
\* video FAILED and the error's message in errorMessage.
C10_PipelineFailureMarksVideo ==
    (pipe_route \in Routes /\ pipe_pc = "done"
        /\ pipe_thrown.at \in {"transcribe", "detect"}) =>
        /\ NewClips = {}
        /\ pipe_started = << >>
        /\ video_status = "FAILED"
        /\ video_error = pipe_thrown.message
        /\ video_error = ErrorMessage(IF pipe_thrown.at = "detect"
                                      THEN "detectHighlights" ELSE "transcribeVideo")

\* A regenerate run whose highlight detection threw, after the run ended.
C10_Witness ==
    /\ pipe_route = "regenerate"
    /\ pipe_pc = "done"
    /\ pipe_thrown.at = "detect"
    /\ video_status = "FAILED"

\* The run got past highlight detection: nothing was thrown before the
\* clip loop, and the regenerate route did not answer 400 for a missing
\* transcription.
DetectionSucceeded ==
    /\ pipe_thrown.at \in {"none", "clip.create"}
    /\ ~(pipe_route = "regenerate" /\ transcription = "none")

\* C11: when transcription and highlight detection both succeeded, the
\* video's status after the run is READY, whatever happened to the clips.
C11_ReadyWhateverClipOutcomes ==
    (pipe_pc = "done" /\ DetectionSucceeded) => video_status = "READY"

(***************************************************************************)
(* Claims about the result generateCaptions returns.                       *)
(***************************************************************************)
ReturnedWords == FlatWords(cap_result.captions)

\* An input word with the same text (compared as the validation compares
\* texts) and the same start and end as the caption word w.
FromInput(w) ==
    \E i \in DOMAIN cap_words :
        /\ NormalizeWord(cap_words[i].word) = NormalizeWord(w.word)
        /\ cap_words[i].start = w.startTime
        /\ cap_words[i].end = w.endTime

\* C12: every caption word of a returned result has the text, the start
\* time and the end time of one of the input words.
C12_WordTimingUnchanged ==
    cap_pc = "returned" =>
        \A k \in DOMAIN ReturnedWords : FromInput(ReturnedWords[k])

\* C13: every segment of a returned result has between 2 and
\* maxWordsPerSegment words.
C13_SegmentSize ==
    cap_pc = "returned" =>
        \A j \in DOMAIN cap_result.captions :
            /\ Len(cap_result.captions[j].words) >= 2
            /\ Len(cap_result.captions[j].words) <= cap_options.maxWordsPerSegment

\* C14: in every segment of a returned result each word ends no later than
\* the next word starts.
C14_WordsInTimeOrder ==
    cap_pc = "returned" =>
        \A j \in DOMAIN cap_result.captions :
            LET ws == cap_result.captions[j].words
            IN  \A i \in 1..(Len(ws) - 1) : ws[i].endTime <= ws[i + 1].startTime

\* C19: with includeHook, every word of the hook of a returned result is an
\* input word (compared as the validation compares texts).
C19_HookFromInput ==
    (cap_pc = "returned" /\ cap_options.includeHook) =>
        \A k \in DOMAIN cap_result.hook :
            NormalizeWord(cap_result.hook[k]) \in OriginalWords(cap_words)

\* A CaptionsResult that is not malformed: it has a segment, every segment
\* has a word, and every word's time window lies inside its segment's span.
WellFormed(captionsResult) ==
    /\ captionsResult.captions # << >>
    /\ \A j \in DOMAIN captionsResult.captions :
          LET seg == captionsResult.captions[j]
          IN  /\ seg.words # << >>
              /\ \A i \in DOMAIN seg.words :
                    /\ seg.startTime <= seg.words[i].startTime
                    /\ seg.words[i].endTime <= seg.endTime

\* C15: captionsToASS returns a subtitle track only for a CaptionsResult
\* that is not malformed.
C15_MalformedRejected ==
    cap_pc = "encoded" => WellFormed(cap_result)

(***************************************************************************)
(* Claims about the requests and the failures of detectHighlights.         *)
(***************************************************************************)
\* C16: an invocation of detectHighlights issues one model request (none
\* when the configuration check stops it) and never a second one; it throws
\* exactly when the configuration check or the request fails, with an error
\* naming that cause; and when the duration filter removes every candidate
\* it returns an empty list.
C16_OneRequestEmptyIsSuccess ==
    hl_pc \in {"returned", "threw"} =>
        /\ hl_requests = (IF hl_configured THEN 1 ELSE 0)
        /\ (hl_pc = "threw") <=> (~hl_configured \/ ~hl_response.ok)
        /\ (hl_pc = "threw" /\ ~hl_configured) => hl_error = ConfigurationError
        /\ (hl_pc = "threw" /\ hl_configured) => hl_error = DetectionError
        /\ hl_pc = "returned" => hl_error = NoHighlightError
        /\ (hl_configured /\ hl_response.ok /\ InRangeIdx = {}) =>
              (hl_pc = "returned" /\ hl_result = << >>)

\* An answer with candidates, all outside the duration range: returned,
\* empty, after one request.
C16_Witness ==
    /\ hl_pc = "returned"
    /\ hl_configured
    /\ hl_requests = 1
    /\ Len(hl_response.highlights) = 2
    /\ InRangeIdx = {}
    /\ hl_result = << >>

(***************************************************************************)
(* Claims about the routes' temp files.                                    *)
(***************************************************************************)
\* C17: in the process, retry and regenerate routes, once the handling of
\* a clip has ended, by success or by failure, neither its downloaded
\* input file nor its rendered clip file exists.
C17_RouteTempFilesRemoved ==
    pipe_route \in Routes =>
        \A i \in DOMAIN pipe_started :
            Decided(i) => FilesOf(i, {"input", "clip"}) \cap pipe_files = {}

(***************************************************************************)
(* Claims about the temp paths of createClip invocations.                  *)
(***************************************************************************)
\* C18: two createClip invocations never use the same extracted, cropped
\* or subtitle path, and neither reads, overwrites or deletes a temp file
\* the other one wrote.
C18_DistinctTempPaths ==
    \A i, j \in Invocations :
        i # j =>
            /\ (cc_timestamp[i] # 0 /\ cc_timestamp[j] # 0) =>
                  cc_timestamp[i] # cc_timestamp[j]
            /\ (cc_assTime[i] # 0 /\ cc_assTime[j] # 0) =>
                  cc_assTime[i] # cc_assTime[j]
            /\ cc_events = {}

(***************************************************************************)
(* Claims about the crop geometry.                                         *)
(***************************************************************************)
\* C20: for a source of W x H, when W/H > 9/16 the crop is full height,
\* floor(H*9/16) wide, at x = floor((W - cropW)/2), y = 0; otherwise it is
\* full width, floor(W*16/9) high, at x = 0 and y = 0 for 'top',
\* H - cropH for 'bottom', floor((H - cropH)/2) for 'center'.  The crop
\* rectangle lies inside the source frame and the scale is the target size.
C20_CropGeometry ==
    (crop_pc \in {"resolved", "rejected"}
        /\ crop_source.width > 0 /\ crop_source.height > 0) =>
        LET W == crop_source.width
            H == crop_source.height
            c == crop_filters.crop
        IN  /\ (16 * W > 9 * H) =>
                  /\ c.h = H
                  /\ 16 * c.w <= 9 * H /\ 9 * H < 16 * (c.w + 1)
                  /\ 2 * c.x <= W - c.w /\ W - c.w < 2 * (c.x + 1)
                  /\ c.y = 0
            /\ (16 * W <= 9 * H) =>
                  /\ c.w = W
                  /\ 9 * c.h <= 16 * W /\ 16 * W < 9 * (c.h + 1)
                  /\ c.x = 0
                  /\ crop_options.position = "top" => c.y = 0
                  /\ crop_options.position = "bottom" => c.y = H - c.h
                  /\ crop_options.position = "center" =>
                        (2 * c.y <= H - c.h /\ H - c.h < 2 * (c.y + 1))
            /\ c.x >= 0 /\ c.y >= 0 /\ c.w >= 0 /\ c.h >= 0
            /\ c.x + c.w <= W
            /\ c.y + c.h <= H
            /\ crop_filters.scale = [w |-> crop_options.width, h |-> crop_options.height]

\* A 1080x1920-target crop of a 5x12 source at 'top': the rectangle is
\* 5 wide and 8 high at (0, 0) although 4 rows are spare.
C20_Witness ==
    /\ crop_pc = "resolved"
    /\ crop_source = [width |-> 5, height |-> 12]
    /\ crop_options.position = "top"
    /\ crop_filters.crop = [w |-> 5, h |-> 8, x |-> 0, y |-> 0]
    /\ crop_filters.scale = [w |-> 1080, h |-> 1920]

(***************************************************************************)
(* Claims about the time and colour encodings.                             *)
(***************************************************************************)
\* Number.parseInt of a string of decimal digits.
RECURSIVE ParseDecimal(_)
ParseDecimal(str) ==
    IF str = << >> THEN 0
    ELSE ParseDecimal(SubSeq(str, 1, Len(str) - 1)) * 10
            + HexDigitValue(str[Len(str)])

\* The fields of a text of the form H:MM:SS.cc.
TimeFields(text) ==
    LET n == Len(text)
    IN  [hours |-> ParseDecimal(SubSeq(text, 1, n - 9)),
         minutes |-> ParseDecimal(SubSeq(text, n - 7, n - 6)),
         secs |-> ParseDecimal(SubSeq(text, n - 4, n - 3)),
         centis |-> ParseDecimal(SubSeq(text, n - 1, n))]

HasTimeShape(text) ==
    LET n == Len(text)
    IN  /\ n >= 10
        /\ text[n - 8] = ":" /\ text[n - 5] = ":" /\ text[n - 2] = "."
        /\ \A i \in (1..n) \ {n - 8, n - 5, n - 2} :
              \E d \in 1..10 : HexDigits[d] = text[i]

\* The time a text H:MM:SS.cc stands for, in centiseconds.
CentisOf(text) ==
    LET f == TimeFields(text)
    IN  f.hours * 360000 + f.minutes * 6000 + f.secs * 100 + f.centis

\* C21: formatASSTime writes a time as H:MM:SS.cc with MM < 60, SS < 60,
\* cc < 100 and a value equal to the time truncated to hundredths of a
\* second; and a later time never gets an earlier text.
C21_TimeEncoding ==
    (enc_pc = "done" /\ enc_input.kind = "time") =>
        /\ HasTimeShape(enc_output)
        /\ TimeFields(enc_output).minutes < 60
        /\ TimeFields(enc_output).secs < 60
        /\ TimeFields(enc_output).centis < 100
        /\ CentisOf(enc_output) = enc_input.ms \div 10
        /\ \A d \in {1, 10, 300} :
              (enc_input.ms + d \in TimeDomain) =>
                  CentisOf(enc_output) <= CentisOf(formatASSTime(enc_input.ms + d))

\* The RGB triple of a colour text RRGGBB or #RRGGBB.
RGBOf(hex) ==
    LET n == Len(hex)
    IN  <<ParseHexByte(SubSeq(hex, n - 5, n - 4)),
          ParseHexByte(SubSeq(hex, n - 3, n - 2)),
          ParseHexByte(SubSeq(hex, n - 1, n))>>

\* The four bytes AA, BB, GG, RR of a token &HAABBGGRR.
TokenBytes(token) == [i \in 1..4 |-> ParseHexByte(SubSeq(token, 2 * i + 1, 2 * i + 2))]

HasTokenShape(token) ==
    /\ Len(token) = 10
    /\ token[1] = "&" /\ token[2] = "H"
    /\ \A i \in 3..10 : \E d \in DOMAIN HexDigits : HexDigits[d] = token[i]

GoldFullOpacity ==
    [kind |-> "color", ms |-> 0, hex |-> <<"#", "F", "F", "D", "7", "0", "0">>,
     alpha10 |-> 10]

\* C22: hexToASSColor turns a colour RRGGBB or #RRGGBB and an opacity into
\* &HAABBGGRR: the last three bytes read in reverse are the red, green and
\* blue of the input, the alpha byte is the inverted opacity (opacity 1
\* gives 00, opacity 0 gives FF), and #FFD700 at full opacity is &H0000D7FF.
C22_ColorEncoding ==
    (enc_pc = "done" /\ enc_input.kind = "color") =>
        /\ HasTokenShape(enc_output)
        /\ <<TokenBytes(enc_output)[4], TokenBytes(enc_output)[3],
              TokenBytes(enc_output)[2]>> = RGBOf(enc_input.hex)
        /\ (enc_input.alpha10 = 10) => (TokenBytes(enc_output)[1] = 0)
        /\ (enc_input.alpha10 = 0) => (TokenBytes(enc_output)[1] = 255)
        /\ 10 * TokenBytes(enc_output)[1] - (10 - enc_input.alpha10) * 255 \in -5..5
        /\ (enc_input = GoldFullOpacity) =>
              (enc_output = <<"&", "H", "0", "0", "0", "0", "D", "7", "F", "F">>)

C22_Witness ==
    /\ enc_pc = "done"
    /\ enc_input = GoldFullOpacity
    /\ enc_output = <<"&", "H", "0", "0", "0", "0", "D", "7", "F", "F">>

StatusRank(status) ==
    CASE status = "UPLOADED" -> 0
      [] status = "TRANSCRIBING" -> 1
      [] status = "TRANSCRIBED" -> 2
      [] status = "PROCESSING" -> 3
      [] status = "READY" -> 4
      [] status = "FAILED" -> 5

\* The run has not yet written a status of the chain: what the video shows
\* is what the upload or an earlier run left.
BeforeFirstWrite == pipe_pc \in {"idle", "start", "markTranscribing"}

RegenerateAccepted ==
    /\ video_status \in {"READY", "FAILED", "TRANSCRIBED"}
    /\ (video_status \in {"READY", "TRANSCRIBED"}) => (transcription # "none")

\* C25: RegenerateClips.execute succeeds exactly when the status is READY,
\* FAILED or TRANSCRIBED and, for READY and TRANSCRIBED, a transcription
\* exists; then all clips are deleted, the status is TRANSCRIBED, the error
\* message is cleared and the transcription is untouched; otherwise it
\* throws and clips, status, error message and transcription are as before.
C25_RegenerateExecute ==
    [][ (pipe_pc = "start" /\ pipe_route = "regenerate") =>
          IF RegenerateAccepted
          THEN /\ pipe_pc' = "loadTranscription"
               /\ clips' = << >>
               /\ video_status' = "TRANSCRIBED"
               /\ video_error' = "null"
               /\ transcription' = transcription
          ELSE /\ pipe_pc' = "catch"
               /\ pipe_thrown'.at = "prepare"
               /\ UNCHANGED <<clips, video_status, video_error, transcription>>
      ]_vars

\* execute has just succeeded on a FAILED video: the clips and the error
\* message of the earlier run are gone, the transcription is still there.
C25_Witness ==
    /\ pipe_route = "regenerate"
    /\ pipe_pc = "loadTranscription"
    /\ video_status = "TRANSCRIBED"
    /\ video_error = "null"
    /\ clips = << >>
    /\ transcription = "old"

\* C26: RetryVideoProcessing.execute, from any status, leaves the video
\* without transcription and without clips, UPLOADED and with no error
\* message; the retry route then runs the whole pipeline, so from then on,
\* and when the run has completed, the transcription and every clip of the
\* video are this run's and a run that ended READY has its transcription.
C26_RetryStartsOver ==
    (pipe_route = "retry" /\ pipe_pc \notin {"idle", "start"}) =>
        /\ (pipe_pc = "markTranscribing") =>
              /\ transcription = "none"
              /\ clips = << >>
              /\ video_status = "UPLOADED"
              /\ video_error = "null"
        /\ transcription \in {"none", "new"}
        /\ \A i \in DOMAIN clips : clips[i].run = "new"
        /\ (pipe_pc = "done" /\ video_status = "READY") => (transcription = "new")

C26_Witness ==
    /\ pipe_route = "retry"
    /\ pipe_pc = "done"
    /\ video_status = "READY"
    /\ transcription = "new"
    /\ Len(clips) = MaxPipelineHighlights

\* The regenerate request has answered with an error about its
\* precondition: RegenerateClips.execute threw (500), or the route found no
\* transcription (400).
RegenerateRefused ==
    /\ pipe_route = "regenerate"
    /\ pipe_pc = "done"
    /\ \/ pipe_thrown.at = "prepare"
       \/ pipe_thrown.at = "none" /\ pipe_video.transcription = "none"

\* C27: a regenerate request that ends with an error response because the
\* status is not READY, FAILED or TRANSCRIBED, or because the
\* transcription is missing, leaves status, error message, clips and
\* transcription as they were before the request.
C27_RefusedLeavesVideoAlone == RegenerateRefused => (VideoRecord = pipe_video)

\* C28: after any sequence of process, retry and regenerate requests, one
\* after the other, whenever the status is TRANSCRIBED or READY the video
\* has a transcription record.
C28_TranscriptionWhenUsable ==
    (~rq_overlap /\ rq_status \in {"TRANSCRIBED", "READY"}) => (rq_transcription # 0)

\* The runs whose clips the video holds.
RunsWithClips == { r \in Runs : rq_clips[r] > 0 }

RECURSIVE ClipTotal(_)
ClipTotal(r) == IF r = 0 THEN 0 ELSE rq_clips[r] + ClipTotal(r - 1)

\* C29: at most one run is active on the video at any time, the video
\* never holds clips of two runs at once, and never more clips than one
\* run may create (maxHighlights).
C29_OneRunAtATime ==
    /\ Cardinality({ r \in Runs : Active(r) }) <= 1
    /\ Cardinality(RunsWithClips) <= 1
    /\ ClipTotal(MaxRuns) <= MaxHighlightsPerRun

(***************************************************************************)
(* Claims about the words handed to the caption generator.                 *)
(***************************************************************************)
InsideHighlight(word) ==
    word.start >= cw_highlight.startTime /\ word.end <= cw_highlight.endTime

\* C30: the words handed to generateCaptions for a highlight are exactly the
\* transcript words with start >= startTime and end <= endTime, in
\* transcript order, each moved back by startTime with its text and its
\* duration unchanged; so every start and end handed over lies between 0
\* and endTime - startTime and is written as a time without a sign.
C30_ClipWordsShifted ==
    (cw_pc = "done") =>
        LET kept == SelectSeq(cw_words, InsideHighlight)
            span == cw_highlight.endTime - cw_highlight.startTime
        IN  /\ Len(cw_adjusted) = Len(kept)
            /\ \A i \in DOMAIN cw_adjusted :
                  /\ cw_adjusted[i].word = kept[i].word
                  /\ cw_adjusted[i].start = kept[i].start - cw_highlight.startTime
                  /\ cw_adjusted[i].end - cw_adjusted[i].start
                        = kept[i].end - kept[i].start
                  /\ 0 <= cw_adjusted[i].start
                  /\ cw_adjusted[i].start <= cw_adjusted[i].end
                  /\ cw_adjusted[i].end <= span
                  /\ HasTimeShape(formatASSTime(cw_adjusted[i].start))
                  /\ HasTimeShape(formatASSTime(cw_adjusted[i].end))

\* A highlight from 0.5 s to 1.5 s: the word before it is left out and the
\* two words inside it are handed over in order, 0.5 s earlier.
C30_Witness ==
    /\ cw_pc = "done"
    /\ cw_highlight = [startTime |-> 500, endTime |-> 1500]
    /\ cw_words = <<[word |-> "hola", start |-> 0, end |-> 500],
                    [word |-> "mundo", start |-> 500, end |-> 1000]>>
    /\ cw_adjusted = <<[word |-> "mundo", start |-> 0, end |-> 500]>>

=========================================================================
